---- MODULE Spec2Model ----
(***************************************************************************)
(* go-patcher: a host-side agent that stops a Tomcat instance, patches its *)
(* property files, evicts and unrolls patch tarballs, restarts Tomcat and  *)
(* polls logs/catalina.out for the startup marker, reporting to the admin  *)
(* portal.  Strings are TLA+ strings handled with Len, SubSeq and \o, so   *)
(* that the string tests of the program are computed as the program        *)
(* computes them.                                                          *)
(***************************************************************************)
EXTENDS Integers, Sequences, FiniteSets, TLC

(***************************************************************************)
(* Bounds of the model.                                                    *)
(***************************************************************************)
\* largest configured wait budget (flag waitTime), in seconds
MaxWait == 60
\* largest number of lines Tomcat writes to the fresh logs/catalina.out
MaxLogLen == 2

(***************************************************************************)
(* The strings package, as far as the program uses it.                     *)
(***************************************************************************)
HasPrefix(s, p) == Len(p) <= Len(s) /\ SubSeq(s, 1, Len(p)) = p

HasSuffix(s, p) == Len(p) <= Len(s) /\ SubSeq(s, Len(s) - Len(p) + 1, Len(s)) = p

MatchAt(s, t, i) == i + Len(t) - 1 <= Len(s) /\ SubSeq(s, i, i + Len(t) - 1) = t

Contains(s, t) == \E i \in 1..(Len(s) - Len(t) + 1) : MatchAt(s, t, i)

RECURSIVE IndexFrom(_, _, _)
\* the first position from i on where t occurs in s; 0 when there is none
IndexFrom(s, t, i) ==
    IF i + Len(t) - 1 > Len(s) THEN 0
    ELSE IF MatchAt(s, t, i) THEN i
    ELSE IndexFrom(s, t, i + 1)

\* strings.Index, 1-based; 0 when t does not occur (Go: 0-based, -1)
Index(s, t) == IndexFrom(s, t, 1)

\* strings.LastIndex, 1-based; 0 when t does not occur
LastIndex(s, t) ==
    IF Contains(s, t)
    THEN CHOOSE i \in 1..(Len(s) - Len(t) + 1) :
            MatchAt(s, t, i) /\ \A j \in (i + 1)..(Len(s) - Len(t) + 1) : ~MatchAt(s, t, j)
    ELSE 0

RECURSIVE SplitAt(_, _, _, _)
\* the pieces of s, whose first separator is at position i (0: none)
SplitAt(s, sep, n, i) ==
    IF n <= 1 \/ i = 0
    THEN <<s>>
    ELSE LET rest == SubSeq(s, i + Len(sep), Len(s))
         IN  <<SubSeq(s, 1, i - 1)>> \o SplitAt(rest, sep, n - 1, Index(rest, sep))

\* strings.SplitN(s, sep, n) for n > 0 and a non-empty sep: at most n pieces,
\* the last one holding the unsplit remainder
SplitN(s, sep, n) == SplitAt(s, sep, n, Index(s, sep))

\* strings.Split(s, sep): no limit on the number of pieces
Split(s, sep) == SplitN(s, sep, Len(s) + 1)

RECURSIVE ReplaceN(_, _, _, _)
\* strings.Replace(s, old, new, n) for a non-empty old; n < 0 replaces all
ReplaceN(s, old, new, n) ==
    IF n = 0 \/ Index(s, old) = 0
    THEN s
    ELSE LET i == Index(s, old)
         IN  SubSeq(s, 1, i - 1) \o new
                \o ReplaceN(SubSeq(s, i + Len(old), Len(s)), old, new, n - 1)

IsSpace(c) == c \in {" ", "\n", "\t", "\r"}

RECURSIVE TrimLeft(_)
TrimLeft(s) ==
    IF Len(s) > 0 /\ IsSpace(SubSeq(s, 1, 1)) THEN TrimLeft(SubSeq(s, 2, Len(s))) ELSE s

RECURSIVE TrimRight(_)
TrimRight(s) ==
    IF Len(s) > 0 /\ IsSpace(SubSeq(s, Len(s), Len(s)))
    THEN TrimRight(SubSeq(s, 1, Len(s) - 1)) ELSE s

\* strings.TrimSpace
TrimSpace(s) == TrimRight(TrimLeft(s))

(***************************************************************************)
(* The strconv package, as far as the program uses it.                     *)
(***************************************************************************)
Digits == <<"0", "1", "2", "3", "4", "5", "6", "7", "8", "9">>

IsDigit(c) == \E d \in 1..10 : Digits[d] = c

DigitVal(c) == (CHOOSE d \in 1..10 : Digits[d] = c) - 1

AllDigits(s) == Len(s) > 0 /\ \A i \in 1..Len(s) : IsDigit(SubSeq(s, i, i))

RECURSIVE DigitsVal(_)
DigitsVal(s) ==
    IF Len(s) = 0 THEN 0
    ELSE 10 * DigitsVal(SubSeq(s, 1, Len(s) - 1)) + DigitVal(SubSeq(s, Len(s), Len(s)))

\* strconv.Atoi: an optional sign, then one or more decimal digits; anything
\* else is an error.  (The strings of the model are too short to overflow.)
Atoi(s) ==
    LET signed == Len(s) > 0 /\ SubSeq(s, 1, 1) \in {"+", "-"}
        body   == IF signed THEN SubSeq(s, 2, Len(s)) ELSE s
    IN  IF AllDigits(body)
        THEN [err |-> FALSE,
              k   |-> IF signed /\ SubSeq(s, 1, 1) = "-" THEN 0 - DigitsVal(body)
                      ELSE DigitsVal(body)]
        ELSE [err |-> TRUE, k |-> 0]

RECURSIVE NatStr(_)
NatStr(n) == IF n < 10 THEN Digits[n + 1] ELSE NatStr(n \div 10) \o Digits[(n % 10) + 1]

\* strconv.FormatInt(n, 10)
FormatInt(n) == IF n < 0 THEN "-" \o NatStr(0 - n) ELSE NatStr(n)

(***************************************************************************)
(* Constants of the program.                                               *)
(***************************************************************************)
tomcatServerStartupPattern == "Server startup in"

igniteMismatchPattern == "Fix cache configuration or set system property"

patchDefer == "0"

patchSuccess == "1"

tomcatDown == "2"

inProgress == "10"

(***************************************************************************)
(* State of one run of main.                                               *)
(*   pc        position of main ("exit0", "exit1", "panic" are the ends)   *)
(*   panicMsg  the message of the panic that ended the run, "" otherwise   *)
(*   trace     the external effects of the run so far, oldest first; each  *)
(*             effect is <<operation, argument, argument>>                 *)
(*   patchID, patchFiles, sakaiProperties   the fields of the manifest     *)
(*   startupWaitSeconds   the flag waitTime                                *)
(*   psOut     what "ps x|grep -v grep|grep java|grep tomcatDir" prints    *)
(*   log       logs/catalina.out: whether it exists, and its lines         *)
(*   rotated   logs/catalina.out-pre-patch-<patchID>, likewise             *)
(*   arch      index of the tarball being applied                          *)
(*   z         the loop variable of the readiness loop                     *)
(*   logAtReady  logs/catalina.out as it is when the 40 s settle delay ends*)
(***************************************************************************)
VARIABLES pc, panicMsg, trace, patchID, patchFiles, sakaiProperties,
          startupWaitSeconds, psOut, log, rotated, arch, z, logAtReady

runVars == <<pc, panicMsg, trace, patchID, patchFiles, sakaiProperties,
             startupWaitSeconds, psOut, log, rotated, arch, z, logAtReady>>

manifest == <<patchID, patchFiles, sakaiProperties, startupWaitSeconds>>

(***************************************************************************)
(* State of one call of applyTarballPatch, entry by entry.                 *)
(*   tpc      position: "scan" (first unrollTarball), "evict" (the loop    *)
(*            over fileMap), "write" (second unrollTarball), "done",       *)
(*            "panic"; "idle" when no call is being followed               *)
(*   archive  the entries of the tarball, in order                         *)
(*   fs       the instance tree under the working directory: the existing  *)
(*            paths, each a directory or a file with its bytes             *)
(*   fs0      the instance tree when applyTarballPatch was called          *)
(*   idx      index of the next entry the running unrollTarball reads      *)
(*   m        the map the running unrollTarball is filling                 *)
(*   fileMap  the map the first unrollTarball returned                     *)
(*   todo     the keys of fileMap the eviction loop has not yet visited    *)
(***************************************************************************)
VARIABLES tpc, archive, fs, fs0, idx, m, fileMap, todo

tarVars == <<tpc, archive, fs, fs0, idx, m, fileMap, todo>>

\* no applyTarballPatch call is followed
TarIdle ==
    /\ tpc = "idle"
    /\ archive = <<>>
    /\ fs = <<>>
    /\ fs0 = <<>>
    /\ idx = 0
    /\ m = <<>>
    /\ fileMap = <<>>
    /\ todo = {}

(***************************************************************************)
(* State of one call of modifyPropertyFiles, file by file.                 *)
(*   ppc      position: "file" (the loop over propertyFiles for one change *)
(*            line), "append" (after that loop), "done"; "idle" when no    *)
(*            call is followed                                             *)
(*   sakai    the directory sakai: for each name of propertyFiles, whether *)
(*            the file exists, and its text                                *)
(*   sakai0   the directory sakai when modifyPropertyFiles was called      *)
(*   newProperties  the lines of rawProperties                             *)
(*   lineNo   index of the change line being applied                       *)
(*   fileNo   index in propertyFiles of the next file to look at           *)
(*   addedTheNewProperty, lastValidPropertyFile   the locals of that name  *)
(***************************************************************************)
VARIABLES ppc, sakai, sakai0, newProperties, lineNo, fileNo,
          addedTheNewProperty, lastValidPropertyFile

propVars == <<ppc, sakai, sakai0, newProperties, lineNo, fileNo,
              addedTheNewProperty, lastValidPropertyFile>>

\* no modifyPropertyFiles call is followed
PropIdle ==
    /\ ppc = "idle"
    /\ sakai = <<>>
    /\ sakai0 = <<>>
    /\ newProperties = <<>>
    /\ lineNo = 0
    /\ fileNo = 0
    /\ addedTheNewProperty = FALSE
    /\ lastValidPropertyFile = ""

(***************************************************************************)
(* State of a call of replaceNumbers on a name, and of a second call on    *)
(* the result of the first.                                                *)
(*   rpc      position: "call", "again", "done"; "idle" when not followed  *)
(*   rnIn     the argument of the first call                               *)
(*   rnOut    the result of the first call                                 *)
(*   rnTwice  the result of the second call                                *)
(***************************************************************************)
VARIABLES rpc, rnIn, rnOut, rnTwice

rnVars == <<rpc, rnIn, rnOut, rnTwice>>

\* no replaceNumbers call is followed
RnIdle ==
    /\ rpc = "idle"
    /\ rnIn = ""
    /\ rnOut = ""
    /\ rnTwice = ""

(***************************************************************************)
(* State of one call of removeFiles from the eviction loop, match by match.*)
(*   rmpc     position: "glob", "skip" (the loop that fills toSkip),       *)
(*            "remove" (the loop that removes), "return" (back in          *)
(*            applyTarballPatch), "done", "panic"; "idle" when no call is  *)
(*            followed                                                     *)
(*   rmPattern  the argument wildcardedPath of the call                   *)
(*   disk     the instance tree; a node is a directory, a file, or a       *)
(*            symbolic link with its target                                *)
(*   disk0    the instance tree when removeFiles was called                *)
(*   rmFiles  the local files: what filepath.Glob returned                 *)
(*   rmToSkip the local toSkip                                             *)
(*   rmAt     index in rmFiles of the match the running loop looks at      *)
(*   failing  the paths os.Remove cannot remove                            *)
(*   rmErr    the error removeFiles returns, "" for nil                    *)
(***************************************************************************)
VARIABLES rmpc, rmPattern, disk, disk0, rmFiles, rmToSkip, rmAt, failing, rmErr

rmVars == <<rmpc, rmPattern, disk, disk0, rmFiles, rmToSkip, rmAt, failing, rmErr>>

\* no removeFiles call is followed
RmIdle ==
    /\ rmpc = "idle"
    /\ rmPattern = ""
    /\ disk = <<>>
    /\ disk0 = <<>>
    /\ rmFiles = <<>>
    /\ rmToSkip = {}
    /\ rmAt = 0
    /\ failing = {}
    /\ rmErr = ""

(***************************************************************************)
(* State of one call of shouldSkipFile.                                    *)
(*   skpc     position: "call", "done"; "idle" when no call is followed    *)
(*   skName   the argument filename                                        *)
(*   skips    the result                                                   *)
(***************************************************************************)
VARIABLES skpc, skName, skips

skVars == <<skpc, skName, skips>>

\* no shouldSkipFile call is followed
SkIdle ==
    /\ skpc = "idle"
    /\ skName = ""
    /\ skips = FALSE

fnVars == <<propVars, rnVars, rmVars, skVars>>

FnIdle == PropIdle /\ RnIdle /\ RmIdle /\ SkIdle

NoFile == [exists |-> FALSE, lines |-> <<>>]

File(ls) == [exists |-> TRUE, lines |-> ls]

Event(op, a, b) == <<op, a, b>>

\* inputs of the model
PatchIDs == {"63547", "42"}

PatchFileLists == {"abc", "a.tgz", "a.tgz b.tar.zst",
                   "a b c d e f g h i j k"}

PropertyTexts == {"", " die\n", "a.b=c"}

WaitTimes == {40, 45, MaxWait}

PsOutputs == {"",
              "12345 ? Sl 0:10 java /opt/tomcat\n",
              "  2345 ? Sl 0:10 java /opt/tomcat\n",
              "12345 ? Sl 0:10 java /opt/tomcat\n12399 ? Sl 0:02 java /opt/tomcat\n"}

OldLogs == {NoFile, File(<<"INFO: Server startup in [3001] milliseconds">>)}

\* lines Tomcat may write to the fresh logs/catalina.out
LogLines == {"INFO: Starting ProtocolHandler",
             "SEVERE: Fix cache configuration or set system property -DX",
             "INFO: Server startup in [800] milliseconds",
             "INFO: Server startup in [12,345] milliseconds",
             "INFO: Server startup in 3456 milliseconds",
             "INFO [ignite-starter] Server startup in [4512] milliseconds"}

RunInit ==
    /\ pc = "checkDir"
    /\ panicMsg = ""
    /\ trace = <<>>
    /\ patchID \in PatchIDs
    /\ patchFiles \in PatchFileLists
    /\ sakaiProperties \in PropertyTexts
    /\ startupWaitSeconds \in WaitTimes
    /\ psOut \in PsOutputs
    /\ log \in OldLogs
    /\ rotated = NoFile
    /\ arch = 0
    /\ z = 0
    /\ logAtReady = NoFile

\* a panic unwinds main: nothing recovers it, the process ends
Panic(msg) ==
    /\ pc' = "panic"
    /\ panicMsg' = msg

(***************************************************************************)
(* updateAdminPortal: POST one report.  http.PostForm may fail, and then   *)
(* the function panics; otherwise the report has been sent and main goes   *)
(* on at position next.  tr is the trace up to the call.                   *)
(***************************************************************************)
\* variant: the error of http.PostForm is ignored and main goes on
updateAdminPortalErrIgnored(tr, rv, startup, next) ==
    \/ /\ trace' = Append(tr, Event("report", rv, startup))
       /\ pc' = next
       /\ panicMsg' = panicMsg
    \/ /\ trace' = tr
       /\ pc' = next
       /\ panicMsg' = panicMsg

updateAdminPortal(tr, rv, startup, next) ==
    \/ /\ trace' = Append(tr, Event("report", rv, startup))
       /\ pc' = next
       /\ panicMsg' = panicMsg
    \/ /\ Panic("Could not POST update")
       /\ trace' = tr

(***************************************************************************)
(* main, lines 90-95: the two setup checks and the claim report.           *)
(***************************************************************************)
checkTomcatDirExists ==
    /\ pc = "checkDir"
    /\ \E tomcatExists \in BOOLEAN :
          IF tomcatExists
          THEN pc' = "checkOwner" /\ panicMsg' = panicMsg
          ELSE Panic("TomcatDir does not exist")
    /\ UNCHANGED <<trace, manifest, tarVars, fnVars, psOut, log, rotated, arch, z, logAtReady>>

\* variant: the claim report is sent before the ownership of the script is known
checkTomcatOwnershipAfterClaim ==
    /\ pc = "checkOwner"
    /\ trace' = Append(trace, Event("report", inProgress, "0"))
    /\ \E opened \in BOOLEAN, sameUID \in BOOLEAN :
          IF ~opened THEN Panic("Could not open file: bin/catalina.sh")
          ELSE IF ~sameUID THEN pc' = "exit1" /\ panicMsg' = panicMsg
          ELSE pc' = "stop" /\ panicMsg' = panicMsg
    /\ UNCHANGED <<manifest, tarVars, fnVars, psOut, log, rotated, arch, z, logAtReady>>

checkTomcatOwnership ==
    /\ pc = "checkOwner"
    /\ \E opened \in BOOLEAN, sameUID \in BOOLEAN :
          IF ~opened THEN Panic("Could not open file: bin/catalina.sh")
          ELSE IF ~sameUID THEN pc' = "exit1" /\ panicMsg' = panicMsg
          ELSE pc' = "claim" /\ panicMsg' = panicMsg
    /\ UNCHANGED <<trace, manifest, tarVars, fnVars, psOut, log, rotated, arch, z, logAtReady>>

claimPatch ==
    /\ pc = "claim"
    /\ updateAdminPortal(trace, inProgress, "0", "stop")
    /\ UNCHANGED <<manifest, tarVars, fnVars, psOut, log, rotated, arch, z, logAtReady>>

(***************************************************************************)
(* stopTomcat: "bin/catalina.sh stop 32 -force", 20 s, hardKillProcess,    *)
(* 10 s, hardKillProcess.  The process may end during the command and      *)
(* during each of the two sleeps, or not at all.                           *)
(***************************************************************************)
stopTomcat ==
    /\ pc = "stop"
    /\ trace' = Append(trace, Event("stop", "", ""))
    /\ psOut' \in {psOut, ""}
    /\ pc' = "kill1"
    /\ UNCHANGED <<panicMsg, manifest, tarVars, fnVars, log, rotated, arch, z, logAtReady>>

\* checkForProcess: strings.Split never returns an empty slice, so the
\* function returns true whenever it returns
checkForProcess(out) ==
    LET numLines == Split(out, "\n")
    IN  [panic |-> Len(numLines) > 2, alive |-> Len(numLines) > 0]

\* the tokens of the process list that hardKillProcess passes to syscall.Kill
killTargets(out) ==
    LET p == SplitN(out, " ", 3)
        isPID(ps) == ~Atoi(ps).err /\ Atoi(ps).k > 100
    IN  SelectSeq(p, isPID)

\* the PID column of a one-line process list
pidOf(out) == SplitN(TrimLeft(out), " ", 2)[1]

hardKillProcess(at, next) ==
    /\ pc = at
    /\ \E out \in {psOut, ""} :
          LET alive == checkForProcess(out)
              kills == IF alive.alive THEN killTargets(out) ELSE <<>>
          IN  IF alive.panic
              THEN /\ Panic("Number of processes")
                   /\ trace' = trace
                   /\ psOut' = out
              ELSE /\ trace' = trace \o [i \in 1..Len(kills) |-> Event("kill", kills[i], "")]
                   /\ psOut' = IF \E i \in 1..Len(kills) : kills[i] = pidOf(out)
                               THEN "" ELSE out
                   /\ pc' = next
                   /\ panicMsg' = panicMsg
    /\ UNCHANGED <<manifest, tarVars, fnVars, log, rotated, arch, z, logAtReady>>

hardKillProcess1 == hardKillProcess("kill1", "kill2")

hardKillProcess2 == hardKillProcess("kill2", "props")

(***************************************************************************)
(* main, lines 101-111: the property changes of the manifest, or the       *)
(* "die" directive.  modifyPropertyFiles logs its errors and never panics. *)
(***************************************************************************)
mainProperties ==
    /\ pc = "props"
    /\ IF Len(sakaiProperties) > 0
       THEN IF TrimSpace(sakaiProperties) = "die"
            THEN updateAdminPortal(trace, patchSuccess, "1", "exit0")
            ELSE /\ trace' = Append(trace, Event("modifyPropertyFiles", sakaiProperties, ""))
                 /\ pc' = "archives"
                 /\ panicMsg' = panicMsg
       ELSE /\ pc' = "archives"
            /\ UNCHANGED <<trace, panicMsg>>
    /\ UNCHANGED <<manifest, tarVars, fnVars, psOut, log, rotated, arch, z, logAtReady>>

(***************************************************************************)
(* main, lines 113-127: the tarballs of the manifest, one after the other, *)
(* then the portal.cdn.version property.                                   *)
(***************************************************************************)
\* lines 115-122: the locators applyTarballPatch is called with, for a list
patchesOf(files) ==
    IF Contains(files, " ") THEN SplitN(files, " ", 10) ELSE <<files>>

\* the same for each list of the model, computed once
PatchesOfList == [files \in PatchFileLists |-> patchesOf(files)]

patches == PatchesOfList[patchFiles]

mainArchives ==
    /\ pc = "archives"
    /\ IF Len(patchFiles) > 3
       THEN arch' = 1 /\ pc' = "fetch"
       ELSE arch' = arch /\ pc' = "jars"
    /\ UNCHANGED <<panicMsg, trace, manifest, tarVars, fnVars, psOut, log, rotated, z, logAtReady>>

FetchPanics == {"Could not open file", "Could not download patch",
                "Could not copy from web to local file system",
                "Downloaded bytes is different from Content-Length",
                "Could not find the patch file"}

UnrollPanics == {"Could not open patch", "Could not create zstd reader",
                 "Could not read GZIP", "Could not read tarball",
                 "Could not create directory"}

EvictPanics == {"Could not remove components path", "Could not remove special path",
                "Could not remove webapp path", "Could not delete wildcarded path"}

\* one stage of applyTarballPatch(patches[arch]): it completes, or it panics
archiveStage(at, op, panics, next) ==
    /\ pc = at
    /\ \/ /\ trace' = Append(trace, Event(op, patches[arch], ""))
          /\ pc' = next
          /\ panicMsg' = panicMsg
       \/ /\ \E msg \in panics : Panic(msg)
          /\ trace' = trace
    /\ UNCHANGED <<manifest, tarVars, fnVars, psOut, log, rotated, arch, z, logAtReady>>

fetchTarball == archiveStage("fetch", "fetchTarball", FetchPanics, "scan")

unrollTarballScan == archiveStage("scan", "scan", UnrollPanics, "evict")

\* variant: the second unrollTarball call is missing
evictOldNoWritePass ==
    /\ arch = Len(patches)
    /\ archiveStage("evict", "evict", EvictPanics, "cdn")

\* variant: a removal that fails is noticed when the write pass is over
evictOldFailsLate ==
    /\ pc = "evict"
    /\ \/ /\ trace' = Append(trace, Event("evict", patches[arch], ""))
          /\ pc' = "write"
          /\ panicMsg' = panicMsg
       \/ /\ \E msg \in EvictPanics : Panic(msg)
          /\ trace' = trace \o <<Event("evict", patches[arch], ""),
                                 Event("write", patches[arch], "")>>
    /\ UNCHANGED <<manifest, tarVars, fnVars, psOut, log, rotated, arch, z, logAtReady>>

evictOld == archiveStage("evict", "evict", EvictPanics, "write")

unrollTarballWrite ==
    /\ pc = "write"
    /\ \/ /\ trace' = Append(trace, Event("write", patches[arch], ""))
          /\ IF arch < Len(patches)
             THEN arch' = arch + 1 /\ pc' = "fetch"
             ELSE arch' = arch /\ pc' = "cdn"
          /\ panicMsg' = panicMsg
       \/ /\ \E msg \in UnrollPanics : Panic(msg)
          /\ UNCHANGED <<trace, arch>>
    /\ UNCHANGED <<manifest, tarVars, fnVars, psOut, log, rotated, z, logAtReady>>

\* line 126: patchID[len(patchID)-3:] is out of range for a short patchID
mainCdnVersion ==
    /\ pc = "cdn"
    /\ IF Len(patchID) < 3
       THEN /\ Panic("runtime error: slice bounds out of range")
            /\ trace' = trace
       ELSE /\ trace' = Append(trace,
                  Event("modifyPropertyFiles",
                        "portal.cdn.version=" \o SubSeq(patchID, Len(patchID) - 2, Len(patchID)),
                        ""))
            /\ pc' = "jars"
            /\ panicMsg' = panicMsg
    /\ UNCHANGED <<manifest, tarVars, fnVars, psOut, log, rotated, arch, z, logAtReady>>

checkForUnnecessaryJars ==
    /\ pc = "jars"
    /\ \/ /\ trace' = Append(trace, Event("checkForUnnecessaryJars", "", ""))
          /\ pc' = "start"
          /\ panicMsg' = panicMsg
       \/ /\ Panic("Could not open bin/setenv.sh")
          /\ trace' = trace
    /\ UNCHANGED <<manifest, tarVars, fnVars, psOut, log, rotated, arch, z, logAtReady>>

(***************************************************************************)
(* startTomcat: rename logs/catalina.out, then "bin/catalina.sh start".    *)
(* os.Rename fails when the file is missing, and may fail when it is there *)
(* (a directory that cannot be written, a directory in the place of the    *)
(* new name); its error is discarded and the start command is issued       *)
(* either way.                                                             *)
(***************************************************************************)
startTomcat ==
    /\ pc = "start"
    /\ \E renamed \in {ok \in BOOLEAN : ok => log.exists} :
          IF renamed
          THEN /\ rotated' = log
               /\ log' = NoFile
               /\ trace' = trace \o <<Event("rename", patchID, ""), Event("start", "", "")>>
          ELSE /\ UNCHANGED <<rotated, log>>
               /\ trace' = Append(trace, Event("start", "", ""))
    /\ pc' = "settle"
    /\ UNCHANGED <<panicMsg, manifest, tarVars, fnVars, psOut, arch, z, logAtReady>>

\* Tomcat, once started, appends lines to logs/catalina.out (creating it)
\* while main sleeps
tomcatWrites ==
    /\ pc \in {"settle", "sleep"}
    /\ Len(log.lines) < MaxLogLen
    /\ \E line \in LogLines : log' = File(Append(log.lines, line))
    /\ UNCHANGED <<pc, panicMsg, trace, manifest, tarVars, fnVars, psOut, rotated, arch, z, logAtReady>>

(***************************************************************************)
(* checkServerStartup: the first line of logs/catalina.out that holds the  *)
(* mismatch signature (answer "ignite") or the startup marker (answer: the *)
(* line itself); "false" when no line holds either.                        *)
(***************************************************************************)
\* variant: the mismatch signature is not looked for
RECURSIVE checkServerStartupMarkerOnly(_)
checkServerStartupMarkerOnly(lines) ==
    IF lines = <<>> THEN "false"
    ELSE IF Contains(Head(lines), tomcatServerStartupPattern) THEN Head(lines)
    ELSE checkServerStartupMarkerOnly(Tail(lines))

RECURSIVE checkServerStartup(_)
checkServerStartup(lines) ==
    IF lines = <<>> THEN "false"
    ELSE IF Contains(Head(lines), igniteMismatchPattern) THEN "ignite"
    ELSE IF Contains(Head(lines), tomcatServerStartupPattern) THEN Head(lines)
    ELSE checkServerStartup(Tail(lines))

\* the first token that is a number above 1000, or -1
RECURSIVE firstBigToken(_)
firstBigToken(p) ==
    IF p = <<>> THEN 0 - 1
    ELSE IF ~Atoi(Head(p)).err /\ Atoi(Head(p)).k > 1000 THEN Atoi(Head(p)).k
    ELSE firstBigToken(Tail(p))

(***************************************************************************)
(* parseServerStartupTime.  beginBracket and endComma are kept 0-based as  *)
(* in the program; logLine[beginBracket:endComma] panics when endComma is  *)
(* less than beginBracket.                                                 *)
(***************************************************************************)
parseServerStartupTime(logLine) ==
    LET beginBracket == (LastIndex(logLine, "[") - 1) + 1
        endComma     == LastIndex(logLine, "]") - 1
        substr       == ReplaceN(SubSeq(logLine, beginBracket + 1, endComma), ",", "", 0 - 1)
        older        == firstBigToken(SplitN(logLine, " ", 10))
    IN  IF Contains(logLine, "milliseconds")
        THEN IF endComma < beginBracket
             THEN [panic |-> TRUE, k |-> 0]
             ELSE IF ~Atoi(substr).err /\ Atoi(substr).k > 1000
                  THEN [panic |-> FALSE, k |-> Atoi(substr).k]
                  ELSE [panic |-> FALSE, k |-> older]
        ELSE [panic |-> FALSE, k |-> older]

(***************************************************************************)
(* main, lines 135-160: the settle delay and the readiness loop            *)
(*     for z := 40; z < *startupWaitSeconds; z += 10 { ... }               *)
(***************************************************************************)
settleDelay ==
    /\ pc = "settle"
    /\ z' = 40
    /\ logAtReady' = log
    /\ pc' = "loop"
    /\ UNCHANGED <<panicMsg, trace, manifest, tarVars, fnVars, psOut, log, rotated, arch>>

\* variant: the loop runs while z <= waitTime
loopGuardInclusive(zz, wait) == zz <= wait

loopGuard(zz, wait) == zz < wait

\* one pass of the loop body up to the sleep: poll the log, classify
readinessPoll ==
    /\ pc = "loop"
    /\ loopGuard(z, startupWaitSeconds)
    /\ IF ~log.exists
       THEN /\ Panic("Could not open logs/catalina.out")
            /\ trace' = trace
       ELSE LET serverStartupTime == checkServerStartup(log.lines)
                polled     == Append(trace, Event("poll", FormatInt(z), serverStartupTime))
                parsedTime == parseServerStartupTime(serverStartupTime)
            IN  IF Contains(serverStartupTime, "ignite")
                THEN updateAdminPortal(polled, patchDefer, "-2", "exit0")
                ELSE IF ~Contains(serverStartupTime, "false")
                THEN IF parsedTime.panic
                     THEN /\ Panic("runtime error: slice bounds out of range")
                          /\ trace' = polled
                     ELSE IF parsedTime.k > 0
                          THEN updateAdminPortal(polled, patchSuccess,
                                                 FormatInt(parsedTime.k), "exit0")
                          ELSE updateAdminPortal(polled, tomcatDown, "-1", "exit0")
                ELSE /\ trace' = polled
                     /\ pc' = "sleep"
                     /\ panicMsg' = panicMsg
    /\ UNCHANGED <<manifest, tarVars, fnVars, psOut, log, rotated, arch, z, logAtReady>>

loopSleep ==
    /\ pc = "sleep"
    /\ z' = z + 10
    /\ pc' = "loop"
    /\ UNCHANGED <<panicMsg, trace, manifest, tarVars, fnVars, psOut, log, rotated, arch, logAtReady>>

\* lines 158-160: the budget is used up
budgetExhausted ==
    /\ pc = "loop"
    /\ ~loopGuard(z, startupWaitSeconds)
    /\ updateAdminPortal(trace, tomcatDown, "-1", "exit0")
    /\ UNCHANGED <<manifest, tarVars, fnVars, psOut, log, rotated, arch, z, logAtReady>>

RunNext ==
    \/ checkTomcatDirExists
    \/ checkTomcatOwnership
    \/ claimPatch
    \/ stopTomcat
    \/ hardKillProcess1
    \/ hardKillProcess2
    \/ mainProperties
    \/ mainArchives
    \/ fetchTarball
    \/ unrollTarballScan
    \/ evictOld
    \/ unrollTarballWrite
    \/ mainCdnVersion
    \/ checkForUnnecessaryJars
    \/ startTomcat
    \/ tomcatWrites
    \/ settleDelay
    \/ readinessPoll
    \/ loopSleep
    \/ budgetExhausted

vars == <<runVars, tarVars, fnVars>>

Init == RunInit /\ TarIdle /\ FnIdle

Next == RunNext

Spec == Init /\ [][Next]_vars

TypeOK ==
    /\ pc \in {"checkDir", "checkOwner", "claim", "stop", "kill1", "kill2", "props",
               "archives", "fetch", "scan", "evict", "write", "cdn", "jars", "start",
               "settle", "loop", "sleep", "exit0", "exit1", "panic"}
    /\ (pc = "panic") = (panicMsg # "")

(***************************************************************************)
(* Vocabulary for the properties of a run.                                 *)
(***************************************************************************)
Ops(tr) == {tr[i][1] : i \in 1..Len(tr)}

ClaimReport == Event("report", inProgress, "0")

IsTerminalReport(e) == e[1] = "report" /\ e[2] # inProgress

TerminalReports(tr) == SelectSeq(tr, IsTerminalReport)

Ended == pc \in {"exit0", "exit1", "panic"}

\* stopping or killing the service, changing a property file, removing or
\* writing installed artifacts (both unrollTarball passes write), renaming
\* the startup log
DestructiveOps == {"stop", "kill", "modifyPropertyFiles", "scan", "evict", "write",
                   "checkForUnnecessaryJars", "rename"}

ClaimSentBefore(i) == \E j \in 1..(i - 1) : trace[j] = ClaimReport

\* every effect with an operation of A lies before every effect with one of B
Precedes(A, B) ==
    \A j \in 1..Len(trace) :
       trace[j][1] \in B => \A i \in j..Len(trace) : trace[i][1] \notin A

IsPrefix(a, b) == Len(a) <= Len(b) /\ SubSeq(b, 1, Len(a)) = a

(***************************************************************************)
(* C1.  No destructive action (stop command, kill, property file change,   *)
(* removal or write of an installed artifact, rename of the startup log)   *)
(* happens unless the claim report (code 10) was sent earlier in the run;  *)
(* a run whose claim report cannot be delivered ends with none of them.    *)
(***************************************************************************)
C1_ClaimBeforeDestructive ==
    /\ \A i \in 1..Len(trace) : trace[i][1] \in DestructiveOps => ClaimSentBefore(i)
    /\ (panicMsg = "Could not POST update" /\ ~ClaimSentBefore(Len(trace) + 1))
          => (pc = "panic" /\ Ops(trace) \cap DestructiveOps = {})

C1_Witness ==
    /\ {"stop", "kill", "modifyPropertyFiles", "evict", "write", "rename"} \subseteq Ops(trace)
    /\ trace[1] = ClaimReport

(***************************************************************************)
(* C2.  Every run that has sent its claim report sends exactly one         *)
(* terminal report before it ends, whichever way it ends (fatal errors     *)
(* included), provided report delivery is possible; no run sends two.      *)
(***************************************************************************)
C2_ExactlyOneTerminalReport ==
    /\ Len(TerminalReports(trace)) <= 1
    /\ (Ended /\ ClaimSentBefore(Len(trace) + 1) /\ panicMsg # "Could not POST update")
          => Len(TerminalReports(trace)) = 1

(***************************************************************************)
(* C3.  The stages of a run happen in a fixed order.                       *)
(***************************************************************************)
ArchiveOps == <<"fetchTarball", "scan", "evict", "write">>

ArchiveEvents(tr) == SelectSeq(tr, LAMBDA e : e[1] \in {"fetchTarball", "scan", "evict", "write"})

\* fetch, scan, eviction, write of the first locator, then of the second, ...
ExpectedArchiveEvents ==
    LET ps == patches
    IN  IF Len(patchFiles) > 3
        THEN [i \in 1..(4 * Len(ps)) |->
                 Event(ArchiveOps[((i - 1) % 4) + 1], ps[((i - 1) \div 4) + 1], "")]
        ELSE <<>>

IsCdnEvent(e) == e[1] = "modifyPropertyFiles" /\ HasPrefix(e[2], "portal.cdn.version=")

StageOrderCommon ==
    LET expected == ExpectedArchiveEvents
        done     == ArchiveEvents(trace)
    IN  \* the stop stage is over before any property file is patched
        /\ Precedes({"stop", "kill"}, {"modifyPropertyFiles"})
        /\ \A i \in 1..Len(trace) : trace[i][1] = "kill" =>
              \E j \in 1..(i - 1) : trace[j][1] = "stop"
        \* archive by archive: scan, eviction, write pass
        /\ IsPrefix(done, expected)
        \* all archives are finished before the start command
        /\ "start" \in Ops(trace) => done = expected
        /\ Precedes({"scan", "evict", "write"}, {"start"})
        \* the start command precedes the first poll
        /\ \A i \in 1..Len(trace) : trace[i][1] = "poll" =>
              \E j \in 1..(i - 1) : trace[j][1] = "start"
        \* the terminal report follows the last poll
        /\ \A i \in 1..Len(trace) : IsTerminalReport(trace[i]) => i = Len(trace)

\* C3 as stated: property patching is over before any archive is scanned
C3_StageOrderAsStated ==
    /\ StageOrderCommon
    /\ Precedes({"modifyPropertyFiles"}, {"scan"})

\* C3 amended: the property changes of the manifest are patched before any
\* archive is scanned; portal.cdn.version is patched after the last write pass
\* and before the start command; the other stages are ordered as stated.
C3_StageOrder ==
    LET expected == ExpectedArchiveEvents
    IN  /\ StageOrderCommon
        /\ \A j \in 1..Len(trace) :
              trace[j][1] = "scan" =>
                 \A i \in j..Len(trace) :
                    trace[i][1] = "modifyPropertyFiles" => IsCdnEvent(trace[i])
        /\ \A i \in 1..Len(trace) : IsCdnEvent(trace[i]) =>
              /\ ArchiveEvents(SubSeq(trace, 1, i)) = expected
              /\ expected # <<>>
              /\ ~("start" \in Ops(SubSeq(trace, 1, i)))
        /\ ("start" \in Ops(trace) /\ Len(patchFiles) > 3)
              => \E i \in 1..Len(trace) : IsCdnEvent(trace[i])

C3_Witness ==
    /\ pc = "exit0"
    /\ Len(patches) = 2
    /\ {"kill", "poll", "rename"} \subseteq Ops(trace)
    /\ \E i, j \in 1..Len(trace) :
          /\ trace[i] = Event("modifyPropertyFiles", sakaiProperties, "")
          /\ IsCdnEvent(trace[j])
          /\ i < j
    /\ Len(TerminalReports(trace)) = 1

(***************************************************************************)
(* C4.  If no poll finds the startup marker or the mismatch signature      *)
(* before the wait budget is used up (polls at z = 40, 50, ... while       *)
(* z < waitTime), the run stops polling, sends the terminal report Failed  *)
(* (code 2) with duration -1 and ends; no poll happens beyond the budget.  *)
(***************************************************************************)
PollEvents(tr) == SelectSeq(tr, LAMBDA e : e[1] = "poll")

PollTimes == {zz \in 40..(startupWaitSeconds - 1) : (zz - 40) % 10 = 0}

C4_BudgetExhausted ==
    LET polls == PollEvents(trace)
    IN  /\ \A i \in 1..Len(polls) :
              /\ polls[i][2] = FormatInt(40 + 10 * (i - 1))
              /\ 40 + 10 * (i - 1) < startupWaitSeconds
        /\ (pc = "exit0" /\ "start" \in Ops(trace)
               /\ \A i \in 1..Len(polls) : polls[i][3] = "false")
              => /\ trace[Len(trace)] = Event("report", tomcatDown, "-1")
                 /\ Len(TerminalReports(trace)) = 1
                 /\ Len(polls) = Cardinality(PollTimes)

C4_Witness ==
    /\ pc = "exit0"
    /\ Len(PollEvents(trace)) >= 2
    /\ \A i \in 1..Len(PollEvents(trace)) : PollEvents(trace)[i][3] = "false"
    /\ trace[Len(trace)] = Event("report", tomcatDown, "-1")

(***************************************************************************)
(* C5.  If, when the readiness stage begins, the startup log holds the     *)
(* mismatch signature on a line before every startup-marker line, the      *)
(* terminal report is Deferred (code 0).                                   *)
(***************************************************************************)
IgniteFirst(l) ==
    /\ l.exists
    /\ \E i \in 1..Len(l.lines) :
          /\ Contains(l.lines[i], igniteMismatchPattern)
          /\ \A j \in 1..(i - 1) : ~Contains(l.lines[j], tomcatServerStartupPattern)

DeferredIsTheTerminalReport ==
    \/ /\ Len(TerminalReports(trace)) = 1
       /\ TerminalReports(trace)[1][2] = patchDefer
    \/ /\ panicMsg = "Could not POST update"
       /\ TerminalReports(trace) = <<>>

\* C5 as stated: for every value of the wait budget
C5_DeferredForEveryBudget ==
    (Ended /\ z >= 40 /\ IgniteFirst(logAtReady)) => DeferredIsTheTerminalReport

\* C5 amended: for every wait budget above the 40 s settle delay, that is
\* whenever at least one poll takes place
C5_DeferredWhenPolled ==
    (Ended /\ z >= 40 /\ IgniteFirst(logAtReady) /\ startupWaitSeconds > 40)
       => DeferredIsTheTerminalReport

C5_Witness ==
    /\ pc = "exit0"
    /\ startupWaitSeconds = 45
    /\ Len(logAtReady.lines) = 2
    /\ IgniteFirst(logAtReady)
    /\ Contains(logAtReady.lines[2], tomcatServerStartupPattern)
    /\ TerminalReports(trace) = <<Event("report", patchDefer, "-2")>>

(***************************************************************************)
(* C6.  For every startup-marker line "...Server startup in [N]            *)
(* milliseconds", N a positive count written with digits and optional      *)
(* thousands commas, the run reports Success (code 1) with duration N.     *)
(***************************************************************************)
MarkerOpen == "Server startup in ["

MarkerClose == "] milliseconds"

\* the text between the brackets of a line of that form, commas removed
MarkerCount(line) ==
    LET from == Index(line, MarkerOpen) + Len(MarkerOpen)
        to   == Len(line) - Len(MarkerClose)
    IN  ReplaceN(SubSeq(line, from, to), ",", "", 0 - 1)

IsMarkerLine(line) ==
    /\ Contains(line, MarkerOpen)
    /\ HasSuffix(line, MarkerClose)
    /\ AllDigits(MarkerCount(line))
    /\ DigitsVal(MarkerCount(line)) > 0

C6_SuccessWithDurationN ==
    \A i \in 1..Len(trace) :
       (trace[i][1] = "poll" /\ IsMarkerLine(trace[i][3]) /\ pc = "exit0")
          => TerminalReports(trace) =
                <<Event("report", patchSuccess, FormatInt(DigitsVal(MarkerCount(trace[i][3]))))>>

(***************************************************************************)
(* C21.  A poll that finds a line with the startup marker never aborts the *)
(* run: parseServerStartupTime returns, and the run sends its terminal     *)
(* report, Success with the parsed duration or Failed (code 2) with        *)
(* duration -1, unless the report itself cannot be delivered.              *)
(***************************************************************************)
C21_MarkerLineNeverAborts ==
    \A i \in 1..Len(trace) :
       (trace[i][1] = "poll" /\ Contains(trace[i][3], tomcatServerStartupPattern))
          => \/ /\ pc = "exit0"
                /\ Len(TerminalReports(trace)) = 1
                /\ \/ TerminalReports(trace)[1][2] = patchSuccess
                   \/ TerminalReports(trace)[1] = Event("report", tomcatDown, "-1")
             \/ /\ pc = "panic"
                /\ panicMsg = "Could not POST update"

\* the panics of a removal of the eviction loop that is not a library glob
RemovalPanics == {"Could not remove components path", "Could not remove special path",
                  "Could not remove webapp path"}

(***************************************************************************)
(* C25.  When the removal of a components directory or of an exploded      *)
(* web-application directory fails, the run has ended there: the last      *)
(* effect of the run is the scan of that archive, so its write pass has    *)
(* not run, no later archive of the list has been fetched, and the start   *)
(* command has not been issued.                                            *)
(***************************************************************************)
C25_RemovalFailureAborts ==
    panicMsg \in RemovalPanics =>
        /\ pc = "panic"
        /\ trace[Len(trace)] = Event("scan", patches[arch], "")
        /\ ArchiveEvents(trace) = SubSeq(ExpectedArchiveEvents, 1, 4 * (arch - 1) + 2)
        /\ Ops(trace) \cap {"start", "rename", "poll", "checkForUnnecessaryJars"} = {}

\* the removal failed for the first of two archives
C25_Witness ==
    /\ pc = "panic"
    /\ panicMsg = "Could not remove webapp path"
    /\ Len(patches) = 2
    /\ arch = 1
    /\ trace[Len(trace)] = Event("scan", patches[1], "")

(***************************************************************************)
(* C29.  A check-and-kill pass that finds a process matching the instance  *)
(* directory alive sends SIGKILL to the PID of that process, whatever the  *)
(* layout of the process-list line; a pass that finds none sends nothing.  *)
(***************************************************************************)
C29_SurvivorIsKilled ==
    [][(pc \in {"kill1", "kill2"} /\ pc' # pc /\ pc' # "panic")
          => /\ psOut' = ""
             /\ trace' # trace =>
                   /\ psOut # ""
                   /\ trace' = Append(trace, Event("kill", pidOf(psOut), ""))]_vars

(***************************************************************************)
(* C30.  If the instance directory does not exist, or bin/catalina.sh      *)
(* cannot be opened or is not owned by the user of the agent, the run has  *)
(* ended with no effect at all: no claim report, no stop command, no       *)
(* change of a file.                                                       *)
(***************************************************************************)
C30_SetupFailureBeforeClaim ==
    (\/ panicMsg \in {"TomcatDir does not exist", "Could not open file: bin/catalina.sh"}
     \/ pc = "exit1")
        => Ended /\ trace = <<>>

\* a run that ends at the ownership check, with archives and property changes pending
C30_Witness ==
    /\ pc = "exit1"
    /\ trace = <<>>
    /\ Len(patchFiles) > 3
    /\ sakaiProperties # ""

(***************************************************************************)
(* C31.  When the start command is issued, logs/catalina.out holds no line *)
(* from before: a log that existed has been renamed to                     *)
(* logs/catalina.out-pre-patch-<patchID> just before the command, so every *)
(* line a readiness poll reads was written after the start command.        *)
(***************************************************************************)
C31_FreshLogAtStart ==
    [][(pc = "start" /\ pc' # pc)
          => /\ ~log'.exists
             /\ log.exists =>
                   /\ rotated' = log
                   /\ trace' = trace \o <<Event("rename", patchID, ""),
                                          Event("start", "", "")>>]_vars

(***************************************************************************)
(* C32.  The archives are applied locator by locator: the fetch, scan,     *)
(* eviction and write pass of the first locator of the space-separated     *)
(* list, then those of the second, and so on, each locator once; when the  *)
(* start command is issued every locator of the list has been applied.     *)
(***************************************************************************)
LocatorsOfList == [files \in PatchFileLists |-> Split(files, " ")]

Locators == LocatorsOfList[patchFiles]

ExpectedLocatorEvents ==
    LET ls == Locators
    IN  IF Len(patchFiles) > 3
        THEN [i \in 1..(4 * Len(ls)) |->
                 Event(ArchiveOps[((i - 1) % 4) + 1], ls[((i - 1) \div 4) + 1], "")]
        ELSE <<>>

C32_EveryLocatorAppliedOnce ==
    LET expected == ExpectedLocatorEvents
        done     == ArchiveEvents(trace)
    IN  /\ IsPrefix(done, expected)
        /\ "start" \in Ops(trace) => done = expected

(***************************************************************************)
(* C35.  A run that has issued the stop command and has ended has issued   *)
(* the start command, unless the property-change text is the directive     *)
(* "die".                                                                  *)
(***************************************************************************)
IsDie == Len(sakaiProperties) > 0 /\ TrimSpace(sakaiProperties) = "die"

C35_StoppedThenStarted ==
    (Ended /\ "stop" \in Ops(trace) /\ ~IsDie) => "start" \in Ops(trace)

(***************************************************************************)
(* C36.  With the directive "die" a run that has sent its claim does       *)
(* nothing but stop the service: its effects are the claim report, the     *)
(* stop command and the kills; when it has ended, they are followed by the *)
(* one terminal report Success (code 1) with duration 1, unless that       *)
(* report could not be delivered.                                          *)
(***************************************************************************)
DieFrame ==
    IsDie => Ops(trace) \subseteq {"report", "stop", "kill"}

C36_DieOnlyStops ==
    /\ DieFrame
    /\ (IsDie /\ Ended /\ ClaimSentBefore(Len(trace) + 1))
          => \/ /\ pc = "exit0"
                /\ "stop" \in Ops(trace)
                /\ TerminalReports(trace) = <<Event("report", patchSuccess, "1")>>
                /\ trace[Len(trace)] = Event("report", patchSuccess, "1")
             \/ /\ panicMsg = "Could not POST update"
                /\ "stop" \in Ops(trace)
                /\ TerminalReports(trace) = <<>>

(***************************************************************************)
(* C37.  A poll that finds a line with the startup marker classifies the   *)
(* run from that line, whatever else the line holds: the poll is followed  *)
(* at once by the terminal report Success or Failed and by nothing else    *)
(* (or the run has aborted at that poll, C21).                             *)
(***************************************************************************)
C37_MarkerLineIsClassified ==
    \A i \in 1..Len(trace) :
       (trace[i][1] = "poll" /\ Contains(trace[i][3], tomcatServerStartupPattern))
          => \/ /\ i = Len(trace)
                /\ pc = "panic"
             \/ /\ i + 1 = Len(trace)
                /\ pc = "exit0"
                /\ trace[i + 1][1] = "report"
                /\ trace[i + 1][2] \in {patchSuccess, tomcatDown}

(***************************************************************************)
(* C38.  Once the last archive of an applied list has been written, the    *)
(* run patches portal.cdn.version with the last three characters of the    *)
(* patch identifier (the whole identifier when it is shorter), and it does *)
(* so before the start command.                                            *)
(***************************************************************************)
LastThree(id) == IF Len(id) <= 3 THEN id ELSE SubSeq(id, Len(id) - 2, Len(id))

C38_CdnVersionSet ==
    (Len(patchFiles) > 3 /\ ArchiveEvents(trace) = ExpectedArchiveEvents /\ pc # "cdn")
       => \E i \in 1..Len(trace) :
             /\ trace[i] = Event("modifyPropertyFiles",
                                 "portal.cdn.version=" \o LastThree(patchID), "")
             /\ trace[i - 1][1] = "write"
             /\ \A j \in 1..i : trace[j][1] # "start"

(***************************************************************************)
(* The instance tree.  A tree is a function from the existing paths        *)
(* (cleaned, relative to the working directory) to nodes.                  *)
(***************************************************************************)
DirNode == [kind |-> "dir", content |-> ""]

FileNode(c) == [kind |-> "file", content |-> c]

RECURSIVE Join(_)
Join(segs) ==
    IF segs = <<>> THEN ""
    ELSE IF Len(segs) = 1 THEN segs[1]
    ELSE segs[1] \o "/" \o Join(Tail(segs))

RECURSIVE CleanSegs(_, _)
\* path resolution, segment by segment: "" and "." are dropped, ".." pops
CleanSegs(segs, acc) ==
    IF segs = <<>> THEN acc
    ELSE LET seg == Head(segs)
         IN  IF seg \in {"", "."} THEN CleanSegs(Tail(segs), acc)
             ELSE IF seg = ".." /\ acc # <<>> /\ acc[Len(acc)] # ".."
                  THEN CleanSegs(Tail(segs), SubSeq(acc, 1, Len(acc) - 1))
                  ELSE CleanSegs(Tail(segs), Append(acc, seg))

IsAbs(path) == HasPrefix(path, "/")

RECURSIVE BelowRoot(_)
\* at the root of the file system ".." stays at the root
BelowRoot(segs) ==
    IF segs # <<>> /\ Head(segs) = ".." THEN BelowRoot(Tail(segs)) ELSE segs

\* the segments of the path the operating system resolves a name to
PathSegs(path) ==
    LET segs == CleanSegs(Split(path, "/"), <<>>)
    IN  IF IsAbs(path) THEN BelowRoot(segs) ELSE segs

\* the path of the given segments: relative to the working directory (".",
\* with leading ".." segments for paths outside it), or absolute
PathOf(path, segs) ==
    IF IsAbs(path) THEN "/" \o Join(segs)
    ELSE IF segs = <<>> THEN "." ELSE Join(segs)

\* the path the operating system resolves a name to
Clean(path) == PathOf(path, PathSegs(path))

Parent(path) ==
    LET segs == PathSegs(path)
    IN  PathOf(path, SubSeq(segs, 1, Len(segs) - 1))

\* path is dir itself or lies below it
Within(path, dir) == path = dir \/ HasPrefix(path, dir \o "/")

\* os.Stat succeeds
pathExists(tree, path) ==
    path # "" /\ (Clean(path) \in {".", "/"} \/ Clean(path) \in DOMAIN tree)

IsDirectory(tree, path) ==
    \/ Clean(path) \in {".", "/"}
    \/ (Clean(path) \in DOMAIN tree /\ tree[Clean(path)].kind = "dir")

\* path and its ancestors below the working directory (or the root)
Ancestors(path) ==
    LET segs == PathSegs(path)
    IN  {PathOf(path, SubSeq(segs, 1, n)) : n \in 1..Len(segs)}

\* os.MkdirAll: fails when the path or one of its ancestors is a file
MkdirAll(tree, path) ==
    LET want == Ancestors(path)
    IN  IF \E a \in want : a \in DOMAIN tree /\ tree[a].kind = "file"
        THEN [err |-> TRUE, tree |-> tree]
        ELSE [err |-> FALSE,
              tree |-> [q \in DOMAIN tree \cup want |->
                           IF q \in DOMAIN tree THEN tree[q] ELSE DirNode]]

\* os.Create, io.Copy, Close: fails when the directory of the path does not
\* exist or the path is a directory; otherwise the file holds the bytes
CreateFile(tree, path, bytes) ==
    LET q == Clean(path)
    IN  IF ~IsDirectory(tree, Parent(path)) \/ IsDirectory(tree, path)
        THEN [err |-> TRUE, tree |-> tree]
        ELSE [err |-> FALSE,
              tree |-> [r \in DOMAIN tree \cup {q} |->
                           IF r = q THEN FileNode(bytes) ELSE tree[r]]]

\* os.RemoveAll: the path and everything below it; a missing path is no error
RemoveAll(tree, path) ==
    LET q == Clean(path)
    IN  [r \in {x \in DOMAIN tree : ~Within(x, q)} |-> tree[r]]

(***************************************************************************)
(* unrollTarball.                                                          *)
(***************************************************************************)
ProtectedDir == "components/sakai-provider-pack/WEB-INF/"

\* variant: the pattern does not end in \.xml$
shouldSkipFileAnyType(filename) ==
    /\ HasPrefix(filename, ProtectedDir)
    /\ LET rest == SubSeq(filename, Len(ProtectedDir) + 1, Len(filename))
       IN  /\ ~Contains(rest, "\n")
           /\ \/ Contains(rest, "unboundid")
              \/ Contains(rest, "components")
              \/ Contains(rest, "jldap")

\* skipPattern:
\*   ^components/sakai-provider-pack/WEB-INF/.*(unboundid|components|jldap).*\.xml$
\* ^ and $ match at the ends of the name only, and '.' matches every
\* character but a line break
shouldSkipFile(filename) ==
    /\ HasPrefix(filename, ProtectedDir)
    /\ LET rest == SubSeq(filename, Len(ProtectedDir) + 1, Len(filename))
       IN  /\ HasSuffix(rest, ".xml")
           /\ ~Contains(rest, "\n")
           /\ LET stem == SubSeq(rest, 1, Len(rest) - 4)
              IN  \/ Contains(stem, "unboundid")
                  \/ Contains(stem, "components")
                  \/ Contains(stem, "jldap")

isLibJar(filename) ==
    LET isSharedJar == HasPrefix(filename, "shared/lib/")
        isCommonJar == HasPrefix(filename, "common/lib/")
        isLibDirJar == HasPrefix(filename, "lib/")
        isJarFile   == HasSuffix(filename, ".jar")
    IN  (isSharedJar \/ isCommonJar \/ isLibDirJar) /\ isJarFile

\* lines 549-554: one leading "./" is stripped from the name of a regular file
stripDotSlash(filename) ==
    IF HasPrefix(filename, "./") THEN ReplaceN(filename, "./", "", 1) ELSE filename

\* lines 556-560 without the pathExists test
skipsEntryAlways(tree, filename) == shouldSkipFile(filename)

\* lines 556-560: an entry of the protected pattern is skipped when its path exists
skipsEntry(tree, filename) == shouldSkipFile(filename) /\ pathExists(tree, filename)

\* lines 562-577 with line 572 setting the count to 1 instead of adding 1
countEntryNoAdd(mm, filename) ==
    IF Len(filename) > Len("components/a")
    THEN LET splitPaths == Split(filename, "/")
         IN  IF Len(splitPaths) > 1
             THEN LET key == IF isLibJar(filename) THEN filename
                             ELSE splitPaths[1] \o "/" \o splitPaths[2]
                  IN  [k \in DOMAIN mm \cup {key} |-> IF k = key THEN 1 ELSE mm[k]]
             ELSE mm
    ELSE mm

\* lines 562-577: the bucket accounting of one regular file
countEntry(mm, filename) ==
    IF Len(filename) > Len("components/a")
    THEN LET splitPaths == Split(filename, "/")
         IN  IF Len(splitPaths) > 1
             THEN LET firstTwoPaths == splitPaths[1] \o "/" \o splitPaths[2]
                  IN  IF isLibJar(filename)
                      THEN [k \in DOMAIN mm \cup {filename} |->
                               IF k = filename THEN 1 ELSE mm[k]]
                      ELSE IF firstTwoPaths \in DOMAIN mm
                      THEN [mm EXCEPT ![firstTwoPaths] = @ + 1]
                      ELSE [k \in DOMAIN mm \cup {firstTwoPaths} |->
                               IF k = firstTwoPaths THEN 1 ELSE mm[k]]
             ELSE mm
    ELSE mm

TypeDir == "5"

TypeReg == "0"

TypeSymlink == "2"

\* one pass of the loop over the tar headers (lines 522-598), on the state
\* st = [tree, mm, panic] of the call
unrollEntry(st, header) ==
    IF header.typeflag = TypeDir
    THEN IF ~pathExists(st.tree, header.name)
         THEN LET made == MkdirAll(st.tree, header.name)
              IN  [tree |-> made.tree, mm |-> st.mm, panic |-> made.err]
         ELSE st
    ELSE IF header.typeflag = TypeReg
    THEN LET filename == stripDotSlash(header.name)
         IN  IF skipsEntry(st.tree, filename)
             THEN st
             ELSE [tree  |-> CreateFile(st.tree, filename, header.content).tree,
                   mm    |-> countEntry(st.mm, filename),
                   panic |-> FALSE]
    ELSE st

RECURSIVE unrollFrom(_, _, _)
\* the entries from index i on, until the end of the archive or a panic
unrollFrom(st, entries, i) ==
    IF i > Len(entries) \/ st.panic THEN st
    ELSE unrollFrom(unrollEntry(st, entries[i]), entries, i + 1)

\* a whole call of unrollTarball on a tree
unrollTarball(tree, entries) ==
    unrollFrom([tree |-> tree, mm |-> <<>>, panic |-> FALSE], entries, 1)

(***************************************************************************)
(* applyTarballPatch: the loop over fileMap that clears old installs.      *)
(***************************************************************************)
trimSuffix(s, suffix) ==
    IF HasSuffix(s, suffix) THEN SubSeq(s, 1, Len(s) - Len(suffix)) ELSE s

RECURSIVE replaceNumbersFromEachDigit(_, _, _)
\* lines 823-837 with an asterisk for every digit
replaceNumbersFromEachDigit(s, i, lastWasDigit) ==
    IF i > Len(s) THEN ""
    ELSE LET currentRune == SubSeq(s, i, i)
         IN  IF IsDigit(currentRune)
             THEN "*" \o replaceNumbersFromEachDigit(s, i + 1, TRUE)
             ELSE currentRune \o replaceNumbersFromEachDigit(s, i + 1, FALSE)

RECURSIVE replaceNumbersFrom(_, _, _)
replaceNumbersFrom(s, i, lastWasDigit) ==
    IF i > Len(s) THEN ""
    ELSE LET currentRune == SubSeq(s, i, i)
         IN  IF IsDigit(currentRune)
             THEN (IF lastWasDigit THEN "" ELSE "*") \o replaceNumbersFrom(s, i + 1, TRUE)
             ELSE currentRune \o replaceNumbersFrom(s, i + 1, FALSE)

\* the loop of line 823 starting at the second character
replaceNumbersFromSecond(s) == replaceNumbersFrom(s, 2, FALSE)

\* every run of digits becomes one asterisk
replaceNumbers(s) == replaceNumbersFrom(s, 1, FALSE)

RECURSIVE GlobMatch(_, _)
\* filepath.Match for patterns whose only metacharacter is "*", on one
\* path segment
GlobMatch(pattern, name) ==
    IF pattern = "" THEN name = ""
    ELSE LET rest == SubSeq(pattern, 2, Len(pattern))
         IN  IF SubSeq(pattern, 1, 1) = "*"
             THEN \E k \in 0..Len(name) : GlobMatch(rest, SubSeq(name, k + 1, Len(name)))
             ELSE /\ name # ""
                  /\ SubSeq(name, 1, 1) = SubSeq(pattern, 1, 1)
                  /\ GlobMatch(rest, SubSeq(name, 2, Len(name)))

hasMeta(pattern) == Contains(pattern, "*")

\* the last segment of a resolved path
Base(q) == LET segs == Split(q, "/") IN segs[Len(segs)]

\* the entries of directory dir whose name matches the pattern
Matches(tree, dir, file) ==
    {q \in DOMAIN tree : q # Clean(dir) /\ Parent(q) = Clean(dir) /\ GlobMatch(file, Base(q))}

RECURSIVE Glob(_, _)
\* filepath.Glob: a pattern without "*" is returned as it is when it exists;
\* otherwise the pattern is split at its last "/", the directory part is
\* expanded first if it holds a "*", and the names in each directory that
\* match the last part are returned, joined to the directory and cleaned
Glob(tree, pattern) ==
    IF ~hasMeta(pattern)
    THEN IF pathExists(tree, pattern) THEN {pattern} ELSE {}
    ELSE LET cut  == LastIndex(pattern, "/")
             dir  == IF cut = 0 THEN "."
                     ELSE IF cut = 1 THEN "/"
                     ELSE SubSeq(pattern, 1, cut - 1)
             file == SubSeq(pattern, cut + 1, Len(pattern))
         IN  IF hasMeta(dir)
             THEN UNION {Matches(tree, d, file) :
                            d \in {e \in Glob(tree, dir) : IsDirectory(tree, e)}}
             ELSE IF IsDirectory(tree, dir) THEN Matches(tree, dir, file)
             ELSE {}

\* removeFiles: the matches that are directories are skipped, and so are the
\* matches EvalSymlinks returns under another name (the tree has no symbolic
\* links, so EvalSymlinks returns the cleaned path); the others are removed
removeFiles(tree, wildcardedPath) ==
    LET files  == Glob(tree, wildcardedPath)
        toSkip == {file \in files : tree[Clean(file)].kind = "dir" \/ Clean(file) # file}
    IN  [q \in DOMAIN tree \ (files \ toSkip) |-> tree[q]]

\* line 447 with the provider pack evicted like any other group
evictsComponentsProvidersToo(fileMapPath, cnt) ==
    cnt > 3 /\ HasPrefix(fileMapPath, "components")

\* line 447 with cnt >= 3
evictsComponentsFromThree(fileMapPath, cnt) ==
    LET isComponents   == HasPrefix(fileMapPath, "components")
        isProvidersDir == Contains(fileMapPath, "sakai-provider-pack")
    IN  cnt >= 3 /\ isComponents /\ ~isProvidersDir

\* line 447
evictsComponents(fileMapPath, cnt) ==
    LET isComponents   == HasPrefix(fileMapPath, "components")
        isProvidersDir == Contains(fileMapPath, "sakai-provider-pack")
    IN  cnt > 3 /\ isComponents /\ ~isProvidersDir

\* one pass of the loop over fileMap (lines 438-481), on the tree
evictKey(tree, fileMapPath, cnt) ==
    LET isWebapp     == HasPrefix(fileMapPath, "webapps")
        isWarFile    == HasSuffix(fileMapPath, ".war")
        isSharedJar  == isLibJar(fileMapPath)
        pathArray    == Split(fileMapPath, "/")
        pathToDelete == pathArray[1] \o "/" \o pathArray[2]
    IN  IF evictsComponents(fileMapPath, cnt)
        THEN IF Contains(pathToDelete, "sakai-content-review-pack-federated")
             THEN RemoveAll(RemoveAll(tree, pathToDelete),
                            "components/sakai-content-review-pack")
             ELSE RemoveAll(tree, pathToDelete)
        ELSE IF isWebapp /\ isWarFile
        THEN RemoveAll(tree, trimSuffix(pathToDelete, ".war"))
        ELSE IF isSharedJar
        THEN LET wildcardedFilename ==
                     IF Contains(fileMapPath, "gradebook2") THEN fileMapPath
                     ELSE replaceNumbers(fileMapPath)
             IN  removeFiles(tree, ReplaceN(wildcardedFilename, "-SNAPSHOT", "", 1))
        ELSE tree

(***************************************************************************)
(* Inputs of an applyTarballPatch call: the tarball and the instance tree. *)
(***************************************************************************)
\* most files of the archive's group components/foo-pack
MaxGroupFiles == 4

Dir(name) == [typeflag |-> TypeDir, name |-> name, content |-> ""]

Reg(name, bytes) == [typeflag |-> TypeReg, name |-> name, content |-> bytes]

Symlink(name) == [typeflag |-> TypeSymlink, name |-> name, content |-> ""]

FooPack == "components/foo-pack"

ProviderPack == "components/sakai-provider-pack"

RECURSIVE FooJars(_)
FooJars(n) ==
    IF n = 0 THEN <<>>
    ELSE Append(FooJars(n - 1),
                Reg(FooPack \o "/WEB-INF/lib/foo-" \o NatStr(n) \o ".jar", "new"))

\* n regular files under components/foo-pack, their directories first
FooEntries(n) ==
    <<Dir("components/"), Dir(FooPack \o "/"), Dir(FooPack \o "/WEB-INF/"),
      Reg(FooPack \o "/WEB-INF/components.xml", "new"),
      Dir(FooPack \o "/WEB-INF/lib/")>> \o FooJars(n - 1)

\* the provider pack: three files of the protected pattern and two others
ProviderEntries(kind) ==
    IF kind = "none" THEN <<>>
    ELSE <<Dir(ProviderPack \o "/"), Dir(ProviderPack \o "/WEB-INF/"),
           Reg(ProviderPack \o "/WEB-INF/components.xml", "new"),
           Reg(ProviderPack \o "/WEB-INF/jldap-beans.xml", "new"),
           Reg(ProviderPack \o "/WEB-INF/unboundid-ldap.xml", "new"),
           Reg(ProviderPack \o "/WEB-INF/web.xml", "new"),
           Reg(ProviderPack \o "/WEB-INF/spring.txt", "new")>>
         \o (IF kind = "twice"
             THEN <<Reg(ProviderPack \o "/WEB-INF/components.xml", "newer")>>
             ELSE <<>>)

\* a web application bundle, a shared library, and a symbolic link
OtherEntries(with) ==
    IF with
    THEN <<Dir("webapps/"), Reg("webapps/bar.war", "new"), Symlink("webapps/ROOT"),
           Dir("shared/lib/"), Reg("shared/lib/jaxb-impl-2.3.3.jar", "new")>>
    ELSE <<>>

IsNotDir(header) == header.typeflag # TypeDir

Dotted(entries) == [i \in 1..Len(entries) |-> [entries[i] EXCEPT !.name = "./" \o @]]

\* shape "listed": every directory is an entry ahead of its files; "bare":
\* regular files only; "dotted": as "listed", every name starting with "./"
Archive(n, kind, with, shape) ==
    LET all == FooEntries(n) \o ProviderEntries(kind) \o OtherEntries(with)
    IN  IF shape = "bare" THEN SelectSeq(all, IsNotDir)
        ELSE IF shape = "dotted" THEN Dotted(all)
        ELSE all

Archives ==
    {Archive(n, kind, with, shape) :
        n \in 3..MaxGroupFiles, kind \in {"none", "once", "twice"},
        with \in BOOLEAN, shape \in {"listed", "bare", "dotted"}}

\* a tree from its directories and its files (path, bytes)
Tree(dirs, files) ==
    [q \in dirs \cup {f[1] : f \in files} |->
        IF q \in dirs THEN DirNode
        ELSE FileNode((CHOOSE f \in files : f[1] = q)[2])]

\* the instance before the call: a prior install of foo-pack or none; the
\* provider pack absent, installed without the protected files, or with a
\* components.xml the operator has edited; an exploded bar and an older jaxb
Trees ==
    {Tree({"components", "webapps", "shared", "shared/lib"}
            \cup (IF foo THEN {FooPack, FooPack \o "/WEB-INF", FooPack \o "/WEB-INF/lib"}
                  ELSE {})
            \cup (IF provider # "absent" THEN {ProviderPack, ProviderPack \o "/WEB-INF"}
                  ELSE {})
            \cup (IF bar THEN {"webapps/bar"} ELSE {}),
          (IF foo THEN {<<FooPack \o "/WEB-INF/components.xml", "old">>,
                        <<FooPack \o "/WEB-INF/lib/foo-0.jar", "old">>}
           ELSE {})
            \cup (IF provider = "custom"
                  THEN {<<ProviderPack \o "/WEB-INF/components.xml", "custom">>,
                        <<ProviderPack \o "/WEB-INF/web.xml", "old">>}
                  ELSE {})
            \cup (IF bar THEN {<<"webapps/bar/index.html", "old">>,
                               <<"shared/lib/jaxb-impl-2.3.1.jar", "old">>}
                  ELSE {})) :
        foo \in BOOLEAN, provider \in {"absent", "dirs", "custom"}, bar \in BOOLEAN}

\* no run of main is followed
RunIdle ==
    /\ pc = "idle"
    /\ panicMsg = ""
    /\ trace = <<>>
    /\ patchID = ""
    /\ patchFiles = ""
    /\ sakaiProperties = ""
    /\ startupWaitSeconds = 0
    /\ psOut = ""
    /\ log = NoFile
    /\ rotated = NoFile
    /\ arch = 0
    /\ z = 0
    /\ logAtReady = NoFile

ReviewPack == "components/sakai-content-review-pack"

\* more archives: the federated content-review pack with a file of the
\* plain one; entries whose names leave the working directory, are absolute,
\* or are short; and groups of more than 3 files in an exploded web
\* application, next to the components directory, and elsewhere
OddArchives ==
    {<<Reg("webapps/ROOT/a.html", "new"), Reg("webapps/ROOT/b.html", "new"),
       Reg("webapps/ROOT/c.html", "new"), Reg("webapps/ROOT/d.html", "new"),
       Reg("components-old/foo/f1", "new"), Reg("components-old/foo/f2", "new"),
       Reg("components-old/foo/f3", "new"), Reg("components-old/foo/f4", "new"),
       Reg("bin/tools/a.sh", "new"), Reg("bin/tools/b.sh", "new"),
       Reg("bin/tools/c.sh", "new"), Reg("bin/tools/d.sh", "new")>>,
     <<Dir("components/"), Dir(ReviewPack \o "-federated/"),
       Reg(ReviewPack \o "-federated/f1", "new"), Reg(ReviewPack \o "-federated/f2", "new"),
       Reg(ReviewPack \o "-federated/f3", "new"), Reg(ReviewPack \o "-federated/f4", "new"),
       Dir(ReviewPack \o "/"), Reg(ReviewPack \o "/f1", "new")>>,
     <<Reg("lib/../../b/lib/x-2.jar", "new"), Reg("lib/ab-1.jar", "new"),
       Reg("/opt/x-33.jar", "new"), Reg("webapps/a.war", "new")>>}

\* an instance with the plain content-review pack and a lib directory, next
\* to another instance b
OddTrees ==
    {Tree({"components", "webapps", "shared", "shared/lib", "lib", ReviewPack,
           "webapps/a", "../b", "../b/lib", "webapps/ROOT", "components-old",
           "components-old/foo", "bin", "bin/tools"},
          {<<ReviewPack \o "/f0", "old">>, <<"lib/ab-0.jar", "old">>,
           <<"webapps/a/index.html", "old">>, <<"../b/lib/x-1.jar", "old">>,
           <<"webapps/ROOT/old.html", "old">>, <<"components-old/foo/f0", "old">>,
           <<"bin/tools/old.sh", "old">>})}

TarInit ==
    /\ tpc = "scan"
    /\ \/ archive \in Archives /\ fs0 \in Trees
       \/ archive \in OddArchives /\ fs0 \in OddTrees
    /\ fs = fs0
    /\ idx = 1
    /\ m = <<>>
    /\ fileMap = <<>>
    /\ todo = {}

(***************************************************************************)
(* applyTarballPatch, step by step.                                        *)
(***************************************************************************)
\* unrollTarball reads the next header and handles it
unrollTarballEntry ==
    /\ tpc \in {"scan", "write"}
    /\ idx <= Len(archive)
    /\ \E st \in {unrollEntry([tree |-> fs, mm |-> m, panic |-> FALSE], archive[idx])} :
           /\ fs' = st.tree
           /\ m' = st.mm
           /\ tpc' = IF st.panic THEN "panic" ELSE tpc
    /\ idx' = idx + 1
    /\ UNCHANGED <<archive, fs0, fileMap, todo, runVars, fnVars>>

\* line 435: the first unrollTarball returns its map at the end of the archive
applyTarballPatchScanned ==
    /\ tpc = "scan"
    /\ idx > Len(archive)
    /\ fileMap' = m
    /\ todo' = DOMAIN m
    /\ tpc' = "evict"
    /\ UNCHANGED <<archive, fs, fs0, idx, m, runVars, fnVars>>

\* lines 438-481: the loop visits the keys of fileMap in any order; a removal
\* that fails panics
applyTarballPatchEvict ==
    /\ tpc = "evict"
    /\ \E fileMapPath \in todo :
          \E cleared \in {evictKey(fs, fileMapPath, fileMap[fileMapPath])} :
              \/ /\ fs' = cleared
                 /\ todo' = todo \ {fileMapPath}
                 /\ tpc' = "evict"
              \/ /\ cleared # fs
                 /\ tpc' = "panic"
                 /\ UNCHANGED <<fs, todo>>
    /\ UNCHANGED <<archive, fs0, idx, m, fileMap, runVars, fnVars>>

\* line 484: the second unrollTarball starts when the loop is over
applyTarballPatchUnrollAgain ==
    /\ tpc = "evict"
    /\ todo = {}
    /\ tpc' = "write"
    /\ idx' = 1
    /\ m' = <<>>
    /\ UNCHANGED <<archive, fs, fs0, fileMap, todo, runVars, fnVars>>

\* line 485: the second unrollTarball returns, its map is dropped
applyTarballPatchReturn ==
    /\ tpc = "write"
    /\ idx > Len(archive)
    /\ tpc' = "done"
    /\ UNCHANGED <<archive, fs, fs0, idx, m, fileMap, todo, runVars, fnVars>>

TarNext ==
    \/ unrollTarballEntry
    \/ applyTarballPatchScanned
    \/ applyTarballPatchEvict
    \/ applyTarballPatchUnrollAgain
    \/ applyTarballPatchReturn

InitTar == RunIdle /\ TarInit /\ FnIdle

SpecTar == InitTar /\ [][TarNext]_vars

TarTypeOK ==
    /\ tpc \in {"scan", "evict", "write", "done", "panic"}
    /\ idx \in 1..(Len(archive) + 1)
    /\ todo \subseteq DOMAIN fileMap
    /\ \A q \in DOMAIN fs : fs[q].kind \in {"dir", "file"}

(***************************************************************************)
(* Vocabulary for the properties of an applyTarballPatch call.             *)
(***************************************************************************)
Entries == 1..Len(archive)

IsRegular(i) == archive[i].typeflag = TypeReg

\* the normalized name of a regular entry, and the path it resolves to
EntryName(i) == stripDotSlash(archive[i].name)

EntryPath(i) == Clean(EntryName(i))

IsProtectedEntry(i) == IsRegular(i) /\ shouldSkipFile(EntryName(i))

IsFileIn(tree, q) == q \in DOMAIN tree /\ tree[q].kind = "file"

\* the first and the last regular entry of the archive for path q
FirstEntryOf(q) ==
    CHOOSE i \in Entries :
        /\ IsRegular(i) /\ EntryPath(i) = q
        /\ \A j \in 1..(i - 1) : ~(IsRegular(j) /\ EntryPath(j) = q)

LastEntryOf(q) ==
    CHOOSE i \in Entries :
        /\ IsRegular(i) /\ EntryPath(i) = q
        /\ \A j \in (i + 1)..Len(archive) : ~(IsRegular(j) /\ EntryPath(j) = q)

\* the archive lists, ahead of entry i, the directory that entry i goes into
\* (or one below it)
DirectoryListed(i) ==
    \E j \in 1..(i - 1) :
        /\ archive[j].typeflag = TypeDir
        /\ Within(Clean(archive[j].name), Parent(EntryPath(i)))

\* the directory entry i goes into exists when the first pass reaches entry i
DirectoryReady(i) ==
    \/ DirectoryListed(i)
    \/ (Parent(EntryPath(i)) \in DOMAIN fs0 /\ fs0[Parent(EntryPath(i))].kind = "dir")

GroupOf(i) ==
    LET segs == Split(EntryName(i), "/")
    IN  IF Len(segs) > 1 THEN segs[1] \o "/" \o segs[2] ELSE EntryName(i)

GroupEntries(g) == {i \in Entries : IsRegular(i) /\ GroupOf(i) = g}

BigGroups ==
    {g \in {GroupOf(i) : i \in {j \in Entries : IsRegular(j)}} :
        /\ HasPrefix(g, "components/")
        /\ g # ProviderPack
        /\ Cardinality(GroupEntries(g)) > 3}

FilesUnder(tree, g) == {q \in DOMAIN tree : tree[q].kind = "file" /\ Within(q, g)}

\* every file on disk under g is a file of the archive, with its bytes
NothingLeftOver(g) ==
    \A q \in FilesUnder(fs, g) :
        /\ \E i \in GroupEntries(g) : EntryPath(i) = q
        /\ fs[q].content = archive[LastEntryOf(q)].content

\* every file of the archive's group g is on disk
AllInstalled(g) == \A i \in GroupEntries(g) : IsFileIn(fs, EntryPath(i))

C9_ScanTwiceIdentical ==
    tpc = "evict" /\ todo = DOMAIN fileMap
        => unrollTarball(fs, archive).mm = fileMap

(***************************************************************************)
(* C10, as stated: after a call, for every group components/<group> other  *)
(* than the provider pack of which the archive holds more than 3 regular   *)
(* files, the files on disk under components/<group> are exactly the       *)
(* archive's files of that group, with the archive's bytes.                *)
(***************************************************************************)
C10_GroupReplacedAsStated ==
    tpc = "done" => \A g \in BigGroups : NothingLeftOver(g) /\ AllInstalled(g)

(***************************************************************************)
(* C10, amended: after a call, for every such group, no file is left under *)
(* components/<group> but files of the archive with the archive's bytes;   *)
(* and if the archive lists, ahead of each file of the group, the          *)
(* directory the file goes into, every file of the group is there.         *)
(***************************************************************************)
C10_GroupReplaced ==
    tpc = "done" =>
        \A g \in BigGroups :
            /\ NothingLeftOver(g)
            /\ (\A i \in GroupEntries(g) : DirectoryListed(i)) => AllInstalled(g)

\* the call is over: a group of more than 3 files, its directories listed, has
\* replaced a prior install that held a file the archive does not hold
C10_Witness ==
    /\ tpc = "done"
    /\ \E g \in BigGroups :
          /\ \A i \in GroupEntries(g) : DirectoryListed(i)
          /\ \E q \in FilesUnder(fs0, g) : \A i \in GroupEntries(g) : EntryPath(i) # q
          /\ AllInstalled(g)
          /\ NothingLeftOver(g)

\* the directories components/<group> of a tree
ComponentDirs(tree) ==
    {q \in DOMAIN tree :
        /\ tree[q].kind = "dir"
        /\ HasPrefix(q, "components/")
        /\ Len(Split(q, "/")) = 2}

\* the archive holds more than 3 regular files under a federated
\* content-review group
FederatedReplaced ==
    \E i \in Entries :
        /\ IsRegular(i)
        /\ Contains(GroupOf(i), "sakai-content-review-pack-federated")
        /\ HasPrefix(GroupOf(i), "components")
        /\ Cardinality(GroupEntries(GroupOf(i))) > 3

InsideRoot(q) == ~IsAbs(q) /\ q # ".." /\ ~HasPrefix(q, "../")

(***************************************************************************)
(* C12: every path a step of the eviction loop removes lies inside the     *)
(* instance root, the working directory of the run, whatever the names of  *)
(* the archive's entries.                                                  *)
(***************************************************************************)
C12_EvictionInsideRoot ==
    [][tpc = "evict" => \A q \in DOMAIN fs \ DOMAIN fs' : InsideRoot(q)]_vars

\* entry i is a web application bundle webapps/<name>.war
IsBundle(i) ==
    /\ IsRegular(i)
    /\ HasPrefix(EntryName(i), "webapps/")
    /\ HasSuffix(EntryName(i), ".war")
    /\ Len(Split(EntryName(i), "/")) = 2

\* this step of unrollTarball handles entry i and leaves its file on disk
Extracts(i) ==
    /\ tpc \in {"scan", "write"}
    /\ idx = i
    /\ idx' = i + 1
    /\ IsFileIn(fs', EntryPath(i))

(***************************************************************************)
(* C13: no step of applyTarballPatch writes the bundle file of an entry    *)
(* webapps/<name>.war while the exploded directory webapps/<name> exists:  *)
(* the directory is removed before the bundle is extracted.                *)
(***************************************************************************)
C13_ExplodedRemovedFirst ==
    [][\A i \in Entries :
          IsBundle(i) /\ Extracts(i)
              => trimSuffix(EntryPath(i), ".war") \notin DOMAIN fs]_vars

(***************************************************************************)
(* C18: from the start of applyTarballPatch until the first eviction, that *)
(* is during the first unrollTarball and when it has returned, the         *)
(* instance tree is as it was at the start.                                *)
(***************************************************************************)
C18_ScanWritesNothing ==
    (tpc = "scan" \/ (tpc = "evict" /\ todo = DOMAIN fileMap)) => fs = fs0

\* entry i is a regular file that takes part in the bucket accounting of a
\* two-segment group
IsGrouped(i) ==
    /\ IsRegular(i)
    /\ Len(EntryName(i)) > Len("components/a")
    /\ Len(Split(EntryName(i), "/")) > 1
    /\ ~isLibJar(EntryName(i))

(***************************************************************************)
(* C19: the map the first unrollTarball returns counts every regular entry *)
(* whose normalized name is longer than the threshold and has two segments *)
(* or more (library jars apart): its group is a key, and the key's count   *)
(* is the number of such entries of the group -- the entries of the        *)
(* protected pattern whose file exists included.                           *)
(***************************************************************************)
C19_EveryEntryCounted ==
    tpc = "evict" =>
        \A i \in Entries :
            IsGrouped(i) =>
                /\ GroupOf(i) \in DOMAIN fileMap
                /\ fileMap[GroupOf(i)]
                      = Cardinality({j \in Entries : IsGrouped(j) /\ GroupOf(j) = GroupOf(i)})

(***************************************************************************)
(* C20: the map the first unrollTarball returns holds every regular entry  *)
(* whose normalized name begins with shared/lib/, common/lib/ or lib/ and  *)
(* ends in .jar under its full name with count 1, whatever the length of   *)
(* the name.                                                               *)
(***************************************************************************)
C20_EveryLibJarRecorded ==
    tpc = "evict" =>
        \A i \in Entries :
            IsRegular(i) /\ isLibJar(EntryName(i))
                => EntryName(i) \in DOMAIN fileMap /\ fileMap[EntryName(i)] = 1

\* the first segment of a key of the map
TopOf(key) == Split(key, "/")[1]

\* key is a group that none of the three rules is about: a group of an
\* exploded web application, the provider pack, or a group outside the
\* components, webapps and library directories
MatchesNoRule(key) ==
    \/ TopOf(key) = "webapps" /\ ~HasSuffix(key, ".war")
    \/ key = ProviderPack
    \/ /\ TopOf(key) \notin {"components", "webapps", "lib"}
       /\ ~HasPrefix(key, "shared/lib")
       /\ ~HasPrefix(key, "common/lib")

(***************************************************************************)
(* C23: the step of the eviction loop for a group that none of the three   *)
(* rules is about leaves the instance tree as it is, whatever the count of *)
(* the group.                                                              *)
(***************************************************************************)
C23_OtherGroupsUntouched ==
    [][tpc = "evict"
          => \A key \in todo : (todo' = todo \ {key} /\ MatchesNoRule(key)) => fs' = fs]_vars

(***************************************************************************)
(* replaceNumbers on its own: a name is chosen, replaceNumbers is applied  *)
(* to it, and applied again to the result.                                 *)
(***************************************************************************)
\* longest name, apart from the two file names
MaxNameLen == 4

Alphabet == {"1", "7", "a", "*"}

RECURSIVE NamesUpTo(_)
NamesUpTo(n) ==
    IF n = 0 THEN {""}
    ELSE NamesUpTo(n - 1) \cup {s \o c : s \in NamesUpTo(n - 1), c \in Alphabet}

Names == NamesUpTo(MaxNameLen) \cup {"jaxb-impl-2.3.3.jar", "lib/x-10.2-SNAPSHOT.jar"}

RnInit ==
    /\ rpc = "call"
    /\ rnIn \in Names
    /\ rnOut = ""
    /\ rnTwice = ""

replaceNumbersCall ==
    /\ rpc = "call"
    /\ rnOut' = replaceNumbers(rnIn)
    /\ rpc' = "again"
    /\ UNCHANGED <<rnIn, rnTwice, propVars, rmVars, skVars, runVars, tarVars>>

replaceNumbersAgain ==
    /\ rpc = "again"
    /\ rnTwice' = replaceNumbers(rnOut)
    /\ rpc' = "done"
    /\ UNCHANGED <<rnIn, rnOut, propVars, rmVars, skVars, runVars, tarVars>>

RnNext == replaceNumbersCall \/ replaceNumbersAgain

InitReplace == RunIdle /\ TarIdle /\ PropIdle /\ RmIdle /\ SkIdle /\ RnInit

SpecReplace == InitReplace /\ [][RnNext]_vars

\* what position i of s contributes: a character that is no digit, itself;
\* the first digit of a maximal run of digits, one asterisk; any other digit,
\* nothing
Piece(s, i) ==
    IF ~IsDigit(SubSeq(s, i, i)) THEN SubSeq(s, i, i)
    ELSE IF i = 1 \/ ~IsDigit(SubSeq(s, i - 1, i - 1)) THEN "*"
    ELSE ""

RECURSIVE PiecesFrom(_, _)
PiecesFrom(s, i) == IF i > Len(s) THEN "" ELSE Piece(s, i) \o PiecesFrom(s, i + 1)

(***************************************************************************)
(* C16: replaceNumbers(s) is s with each maximal run of decimal digits     *)
(* replaced by one "*" and every other character kept, in order.           *)
(***************************************************************************)
C16_RunsBecomeOneAsterisk ==
    rpc \in {"again", "done"} => rnOut = PiecesFrom(rnIn, 1)

\* the example of the specification has been computed
C16_Witness ==
    /\ rpc = "again"
    /\ rnIn = "jaxb-impl-2.3.3.jar"
    /\ rnOut = "jaxb-impl-*.*.*.jar"

(***************************************************************************)
(* C17: replaceNumbers is idempotent: applied to its own result it returns *)
(* that result.                                                            *)
(***************************************************************************)
C17_Idempotent ==
    rpc = "done" => rnTwice = rnOut

\* both calls are over, for a name with a run of two digits next to an
\* asterisk, which the first call has changed
C17_Witness ==
    /\ rpc = "done"
    /\ rnIn = "*17a"
    /\ rnOut = "**a"
    /\ rnTwice = "**a"

(***************************************************************************)
(* modifyPropertyFiles.                                                    *)
(***************************************************************************)
propertyFiles ==
    <<"sakai.properties", "dev.properties", "local.properties", "instance.properties">>

NoText == [exists |-> FALSE, text |-> ""]

Text(t) == [exists |-> TRUE, text |-> t]

RECURSIVE JoinLines(_)
\* strings.Join(lines, "\n")
JoinLines(lines) ==
    IF lines = <<>> THEN ""
    ELSE IF Len(lines) = 1 THEN lines[1]
    ELSE lines[1] \o "\n" \o JoinLines(Tail(lines))

\* lines 746-751
newPropertyKeyOf(newPropertyLine) ==
    IF Contains(newPropertyLine, "=") /\ ~Contains(newPropertyLine, "#")
    THEN Split(newPropertyLine, "=")[1]
    ELSE "defaultkeyvalueimpossibletofind"

\* lines 770-771
holdsKey(ln, newPropertyKey) ==
    Contains(ln, newPropertyKey) /\ ~Contains(ln, "#" \o newPropertyKey)

RECURSIVE patchLines(_, _, _, _, _)
\* the loop of lines 769-779 from index i on.  range walks the slice that
\* strings.Split returned (orig), whose capacity is its length, so the first
\* insertion moves lines to a new array (cur) and the loop goes on reading
\* orig while it writes cur: i is an index of orig, used as an index of cur
patchLines(orig, cur, i, newPropertyKey, newPropertyLine) ==
    IF i > Len(orig) THEN cur
    ELSE IF holdsKey(orig[i], newPropertyKey)
    THEN patchLines(orig,
                    SubSeq(cur, 1, i - 1) \o <<"#" \o orig[i], newPropertyLine>>
                        \o SubSeq(cur, i + 1, Len(cur)),
                    i + 1, newPropertyKey, newPropertyLine)
    ELSE patchLines(orig, cur, i + 1, newPropertyKey, newPropertyLine)

\* line 799; the time of day is not modelled
patchComment(id) == "# Longsight patch ID: " \o id \o " (2006-01-02 15:04:05)"

PropPatchID == "63547"

\* most lines of sakai.properties
MaxFileLines == 3

PoolLines == {"a.b=1", "x=1", "#a.b=0", "# a.b=5"}

RECURSIVE LinesUpTo(_)
LinesUpTo(n) ==
    IF n = 0 THEN {<<>>}
    ELSE LinesUpTo(n - 1) \cup {Append(ls, l) : ls \in LinesUpTo(n - 1), l \in PoolLines}

Texts == {JoinLines(ls) : ls \in LinesUpTo(MaxFileLines)}

PropertyChanges == {"a.b=2", "a.b=2\nx=1"}

PropInit ==
    /\ ppc = "file"
    /\ \E raw \in PropertyChanges : newProperties = Split(raw, "\n")
    /\ \E s1 \in {NoText} \cup {Text(t) : t \in Texts},
          s3 \in {NoText, Text("x=1"), Text("a.b=7")},
          s4 \in {NoText, Text("x=1")} :
          sakai = [f \in {propertyFiles[n] : n \in 1..4} |->
                      IF f = propertyFiles[1] THEN s1
                      ELSE IF f = propertyFiles[3] THEN s3
                      ELSE IF f = propertyFiles[4] THEN s4
                      ELSE NoText]
    /\ sakai0 = sakai
    /\ lineNo = 1
    /\ fileNo = 1
    /\ addedTheNewProperty = FALSE
    /\ lastValidPropertyFile = ""

\* lines 756-790: one pass of the loop over propertyFiles, for the change line
\* newProperties[lineNo] (reading and writing the file do not fail)
modifyPropertyFile ==
    /\ ppc = "file"
    /\ LET propertyFile    == propertyFiles[fileNo]
           newPropertyLine == newProperties[lineNo]
           newPropertyKey  == newPropertyKeyOf(newPropertyLine)
           lines           == Split(sakai[propertyFile].text, "\n")
           fileModified    == \E i \in 1..Len(lines) : holdsKey(lines[i], newPropertyKey)
       IN  IF sakai[propertyFile].exists
           THEN /\ lastValidPropertyFile' = "sakai/" \o propertyFile
                /\ addedTheNewProperty' = (addedTheNewProperty \/ fileModified)
                /\ sakai' = IF fileModified
                            THEN [sakai EXCEPT ![propertyFile].text =
                                     JoinLines(patchLines(lines, lines, 1,
                                                          newPropertyKey, newPropertyLine))]
                            ELSE sakai
           ELSE UNCHANGED <<lastValidPropertyFile, addedTheNewProperty, sakai>>
    /\ fileNo' = fileNo + 1
    /\ ppc' = IF fileNo = Len(propertyFiles) THEN "append" ELSE "file"
    /\ UNCHANGED <<sakai0, newProperties, lineNo, rnVars, rmVars, skVars, runVars, tarVars>>

\* variant of lines 792-809: the property is appended whether or not it was found
appendNewPropertyAlways ==
    /\ ppc = "append"
    /\ sakai' =
          IF lastValidPropertyFile # ""
          THEN LET propertyFile == SubSeq(lastValidPropertyFile, Len("sakai/") + 1,
                                          Len(lastValidPropertyFile))
                   lines == Split(sakai[propertyFile].text, "\n")
               IN  [sakai EXCEPT ![propertyFile].text =
                       JoinLines(lines \o <<patchComment(PropPatchID),
                                            newProperties[lineNo]>>)]
          ELSE sakai
    /\ IF lineNo = Len(newProperties)
       THEN ppc' = "done" /\ UNCHANGED <<lineNo, fileNo>>
       ELSE ppc' = "file" /\ lineNo' = lineNo + 1 /\ fileNo' = 1
    /\ addedTheNewProperty' = FALSE
    /\ lastValidPropertyFile' = ""
    /\ UNCHANGED <<sakai0, newProperties, rnVars, rmVars, skVars, runVars, tarVars>>

\* lines 792-809: after the loop over the files, a property that was found
\* nowhere is appended to the last existing file; then the next change line
appendNewProperty ==
    /\ ppc = "append"
    /\ sakai' =
          IF ~addedTheNewProperty /\ lastValidPropertyFile # ""
          THEN LET propertyFile == SubSeq(lastValidPropertyFile, Len("sakai/") + 1,
                                          Len(lastValidPropertyFile))
                   lines == Split(sakai[propertyFile].text, "\n")
               IN  [sakai EXCEPT ![propertyFile].text =
                       JoinLines(lines \o <<patchComment(PropPatchID),
                                            newProperties[lineNo]>>)]
          ELSE sakai
    /\ IF lineNo = Len(newProperties)
       THEN ppc' = "done" /\ UNCHANGED <<lineNo, fileNo>>
       ELSE ppc' = "file" /\ lineNo' = lineNo + 1 /\ fileNo' = 1
    /\ addedTheNewProperty' = FALSE
    /\ lastValidPropertyFile' = ""
    /\ UNCHANGED <<sakai0, newProperties, rnVars, rmVars, skVars, runVars, tarVars>>

PropNext == modifyPropertyFile \/ appendNewProperty

InitProps == RunIdle /\ TarIdle /\ RnIdle /\ RmIdle /\ SkIdle /\ PropInit

SpecProps == InitProps /\ [][PropNext]_vars

(***************************************************************************)
(* Vocabulary for the properties of a modifyPropertyFiles call.            *)
(***************************************************************************)
CandidateFiles == {propertyFiles[n] : n \in 1..Len(propertyFiles)}

ExistingFiles == {f \in CandidateFiles : sakai0[f].exists}

\* the existing candidate file that is last in the order of propertyFiles
MostSpecific ==
    propertyFiles[CHOOSE n \in 1..Len(propertyFiles) :
                     /\ sakai0[propertyFiles[n]].exists
                     /\ \A k \in (n + 1)..Len(propertyFiles) : ~sakai0[propertyFiles[k]].exists]

LinesOf(f) == Split(sakai[f].text, "\n")

\* the change lines k=v of the call
Changes ==
    {newProperties[n] : n \in {k \in 1..Len(newProperties) :
        Contains(newProperties[k], "=") /\ ~Contains(newProperties[k], "#")}}

KeyOf(change) == SubSeq(change, 1, Index(change, "=") - 1)

\* the places (file, line number) that hold exactly the line ln
PlacesOf(ln) ==
    {<<f, i>> \in ExistingFiles \X (1..(3 * (MaxFileLines + 2))) :
        i <= Len(LinesOf(f)) /\ LinesOf(f)[i] = ln}

(***************************************************************************)
(* C14: after modifyPropertyFiles, for each change k=v, an uncommented     *)
(* line of a candidate file that contains k is the line k=v, is in the     *)
(* most specific existing file, and is the only such line.                 *)
(***************************************************************************)
C14_NoOtherUncommentedLine ==
    ppc = "done" =>
        \A change \in Changes : \A f \in ExistingFiles :
            \A i \in 1..Len(LinesOf(f)) :
                Contains(LinesOf(f)[i], KeyOf(change)) /\ ~HasPrefix(LinesOf(f)[i], "#")
                    => /\ LinesOf(f)[i] = change
                       /\ f = MostSpecific
                       /\ PlacesOf(change) = {<<f, i>>}

(***************************************************************************)
(* C15: after modifyPropertyFiles, for each change k=v and provided a      *)
(* candidate file exists, the line k=v stands in exactly one place of all  *)
(* the candidate files, and that place is in the most specific existing    *)
(* file.                                                                   *)
(***************************************************************************)
C15_WrittenOnceInMostSpecific ==
    ppc = "done" /\ ExistingFiles # {} =>
        \A change \in Changes :
            /\ Cardinality(PlacesOf(change)) = 1
            /\ \A place \in PlacesOf(change) : place[1] = MostSpecific

\* the change line being applied, and its key
CurrentChange == newProperties[lineNo]

CurrentKey == KeyOf(CurrentChange)

\* the lines of file f in the directory dir
LinesIn(dir, f) == Split(dir[f].text, "\n")

IsCommented(ln) == HasPrefix(ln, "#")

\* file f of dir has a line that contains k
HoldsKey(dir, f, k) ==
    \E i \in 1..Len(LinesIn(dir, f)) : Contains(LinesIn(dir, f)[i], k)

\* an existing file of dir has a line that contains k and is not commented out
HoldsUncommented(dir, k) ==
    \E f \in ExistingFiles : \E i \in 1..Len(LinesIn(dir, f)) :
        Contains(LinesIn(dir, f)[i], k) /\ ~IsCommented(LinesIn(dir, f)[i])

C27_AppendedWhenAbsent ==
    [][/\ (ppc = "file" /\ ~HoldsUncommented(sakai, CurrentKey)) => sakai' = sakai
       /\ ppc = "append" =>
             IF ~HoldsUncommented(sakai, CurrentKey) /\ ExistingFiles # {}
             THEN sakai' = [sakai EXCEPT ![MostSpecific].text =
                               @ \o "\n" \o patchComment(PropPatchID) \o "\n" \o CurrentChange]
             ELSE sakai' = sakai]_vars

(***************************************************************************)
(* C28: a pass over a file changes nothing when every line of the file     *)
(* that contains the key begins with the comment marker '#'; and a pass    *)
(* adds as many lines as the file has lines that contain the key and are   *)
(* not commented out.                                                      *)
(***************************************************************************)
C28_CommentedLinesUntouched ==
    [][(ppc = "file" /\ sakai[propertyFiles[fileNo]].exists)
          => LET f     == propertyFiles[fileNo]
                 lines == LinesIn(sakai, f)
                 stale == {i \in 1..Len(lines) :
                             Contains(lines[i], CurrentKey) /\ ~IsCommented(lines[i])}
             IN  /\ stale = {} => sakai'[f] = sakai[f]
                 /\ Len(LinesIn(sakai', f)) = Len(lines) + Cardinality(stale)]_vars

\* the lines of ls that do not contain k, in their order
Without(ls, k) == SelectSeq(ls, LAMBDA ln : ~Contains(ln, k))

(***************************************************************************)
(* C34: no step of modifyPropertyFiles loses, overwrites, duplicates or    *)
(* reorders a line that does not contain the key of the change being       *)
(* applied: a pass over a file leaves the sequence of those lines as it    *)
(* was, however many lines of the file contain the key, and the step after *)
(* the loop only adds the comment with the patch identifier at its end.    *)
(***************************************************************************)
C34_OtherLinesPreserved ==
    [][\A f \in ExistingFiles :
          LET before == Without(LinesIn(sakai, f), CurrentKey)
              after  == Without(LinesIn(sakai', f), CurrentKey)
          IN  /\ ppc = "file" => after = before
              /\ ppc = "append" => after \in {before, Append(before, patchComment(PropPatchID))}]_vars

(***************************************************************************)
(* removeFiles, called for a library jar of the map (lines 469-480), on a  *)
(* tree that may hold symbolic links.                                      *)
(***************************************************************************)
LinkNode(target) == [kind |-> "link", content |-> target]

\* the working directory of the run (main, line 97)
tomcatDir == "/opt/tomcat"

\* the path of the tree an absolute or relative path names
Local(path) ==
    IF HasPrefix(path, tomcatDir \o "/")
    THEN SubSeq(path, Len(tomcatDir) + 2, Len(path))
    ELSE path

\* isDir: os.Lstat does not follow a link
isDir(tree, file) == tree[file].kind = "dir"

\* filepath.EvalSymlinks(file) for a match of the glob: the cleaned path for
\* a file, the target for a link (joined to the directory of the link when
\* it is relative, as it stands when it is absolute), and an error when the
\* target does not exist.  (The links of the model point to no other link.)
EvalSymlinks(tree, file) ==
    IF tree[file].kind = "link"
    THEN LET target   == tree[file].content
             realFile == IF IsAbs(target) THEN Clean(target)
                         ELSE Clean(Parent(file) \o "/" \o target)
         IN  IF Local(realFile) \in DOMAIN tree
             THEN [err |-> FALSE, path |-> realFile]
             ELSE [err |-> TRUE, path |-> ""]
    ELSE [err |-> FALSE, path |-> Clean(file)]

\* the names of the lib directory, in the order of sort.Strings
LibNames == <<"lib/x-1.jar", "lib/x-2.jar", "lib/x-3.jar", "lib/x-4.jar",
              "lib/x-y-1.jar", "lib/y-1.jar">>

\* the node at lib/x-3.jar: nothing, a jar, a link to lib/x-1.jar (by a
\* relative or by an absolute target), a link to a missing file, a directory
ThirdNodes == {"none", "file", "relative", "absolute", "dangling", "dir"}

LibTree(one, two, three, four) ==
    LET present == {"lib", "lib/x-y-1.jar", "lib/y-1.jar"}
                     \cup (IF one THEN {"lib/x-1.jar"} ELSE {})
                     \cup (IF two THEN {"lib/x-2.jar"} ELSE {})
                     \cup (IF three # "none" THEN {"lib/x-3.jar"} ELSE {})
                     \cup (IF four # "none" THEN {"lib/x-4.jar"} ELSE {})
    IN  [q \in present |->
            IF q = "lib" THEN DirNode
            ELSE IF q = "lib/x-3.jar" /\ three = "relative" THEN LinkNode("x-1.jar")
            ELSE IF q = "lib/x-3.jar" /\ three = "absolute"
                 THEN LinkNode(tomcatDir \o "/lib/x-1.jar")
            ELSE IF q = "lib/x-3.jar" /\ three = "dangling" THEN LinkNode("gone.jar")
            ELSE IF q = "lib/x-3.jar" /\ three = "dir" THEN DirNode
            ELSE IF q = "lib/x-4.jar" /\ four = "dir" THEN DirNode
            ELSE FileNode("old")]

\* the jars of the archive whose map keys lead to the calls that are followed
NewJars == {"lib/x-5.jar", "lib/y-2-SNAPSHOT.jar"}

\* lines 471-476: the pattern for a key of the map
wildcardedFilenameOf(fileMapPath) ==
    ReplaceN(IF Contains(fileMapPath, "gradebook2") THEN fileMapPath
             ELSE replaceNumbers(fileMapPath),
             "-SNAPSHOT", "", 1)

RmInit ==
    /\ rmpc = "glob"
    /\ \E fileMapPath \in NewJars : rmPattern = wildcardedFilenameOf(fileMapPath)
    /\ \E one \in BOOLEAN, two \in BOOLEAN, three \in ThirdNodes, four \in {"none", "file", "dir"} :
          disk0 = LibTree(one, two, three, four)
    /\ disk = disk0
    /\ rmFiles = <<>>
    /\ rmToSkip = {}
    /\ rmAt = 0
    /\ failing \in SUBSET {"lib/x-1.jar", "lib/x-2.jar"}
    /\ rmErr = ""

\* line 866: the matches, sorted (the patterns of the model are well formed)
removeFilesGlob ==
    /\ rmpc = "glob"
    /\ rmFiles' = SelectSeq(LibNames, LAMBDA n : n \in Glob(disk, rmPattern))
    /\ rmAt' = 1
    /\ rmpc' = "skip"
    /\ UNCHANGED <<rmPattern, disk, disk0, rmToSkip, failing, rmErr,
                   propVars, rnVars, skVars, runVars, tarVars>>

\* lines 874-892: one pass of the first loop
removeFilesSkip ==
    /\ rmpc = "skip"
    /\ rmAt <= Len(rmFiles)
    /\ LET file     == rmFiles[rmAt]
           realFile == EvalSymlinks(disk, file)
       IN  IF isDir(disk, file)
           THEN /\ rmToSkip' = rmToSkip \cup {file}
                /\ UNCHANGED <<rmpc, rmErr>>
           ELSE IF realFile.err
           THEN /\ rmErr' = "Failed to eval symlink"
                /\ rmpc' = "return"
                /\ UNCHANGED rmToSkip
           ELSE /\ rmToSkip' = IF realFile.path # file
                             THEN rmToSkip \cup {file, realFile.path}
                             ELSE rmToSkip
                /\ UNCHANGED <<rmpc, rmErr>>
    /\ rmAt' = rmAt + 1
    /\ UNCHANGED <<rmPattern, disk, disk0, rmFiles, failing,
                   propVars, rnVars, skVars, runVars, tarVars>>

\* line 894: the first loop is over, the second begins
removeFilesSkipped ==
    /\ rmpc = "skip"
    /\ rmAt > Len(rmFiles)
    /\ rmAt' = 1
    /\ rmpc' = "remove"
    /\ UNCHANGED <<rmPattern, disk, disk0, rmFiles, rmToSkip, failing, rmErr,
                   propVars, rnVars, skVars, runVars, tarVars>>

\* lines 894-905: one pass of the second loop; line 906 when it is over
removeFilesRemove ==
    /\ rmpc = "remove"
    /\ IF rmAt > Len(rmFiles)
       THEN /\ rmpc' = "return"
            /\ UNCHANGED <<disk, rmErr, rmAt>>
       ELSE /\ rmAt' = rmAt + 1
            /\ LET file == rmFiles[rmAt]
               IN  IF file \in rmToSkip
                   THEN UNCHANGED <<disk, rmErr, rmpc>>
                   ELSE IF file \in failing
                   THEN /\ rmErr' = "Failed to remove"
                        /\ rmpc' = "return"
                        /\ UNCHANGED disk
                   ELSE /\ disk' = [q \in DOMAIN disk \ {file} |-> disk[q]]
                        /\ UNCHANGED <<rmErr, rmpc>>
    /\ UNCHANGED <<rmPattern, disk0, rmFiles, rmToSkip, failing,
                   propVars, rnVars, skVars, runVars, tarVars>>

\* lines 476-479: applyTarballPatch panics when removeFiles returns an error
removeFilesReturn ==
    /\ rmpc = "return"
    /\ rmpc' = IF rmErr # "" THEN "panic" ELSE "done"
    /\ UNCHANGED <<rmPattern, disk, disk0, rmFiles, rmToSkip, rmAt, failing, rmErr,
                   propVars, rnVars, skVars, runVars, tarVars>>

RmNext ==
    \/ removeFilesGlob
    \/ removeFilesSkip
    \/ removeFilesSkipped
    \/ removeFilesRemove
    \/ removeFilesReturn

InitRemove == RunIdle /\ TarIdle /\ PropIdle /\ RnIdle /\ SkIdle /\ RmInit

SpecRemove == InitRemove /\ [][RmNext]_vars

(***************************************************************************)
(* Vocabulary for the properties of a removeFiles call.                    *)
(***************************************************************************)
\* the paths of the instance that match the pattern when the call begins
MatchesAtCall == Glob(disk0, rmPattern)

\* the file a symbolic link of the instance points to
TargetOf(link) ==
    LET target == disk0[link].content
    IN  Local(IF IsAbs(target) THEN Clean(target)
              ELSE Clean(Parent(link) \o "/" \o target))

\* q is the file that a link among the matches points to
IsTargetOfMatch(q) ==
    \E link \in MatchesAtCall : disk0[link].kind = "link" /\ TargetOf(link) = q

(***************************************************************************)
(* C22: removeFiles never removes a directory, a symbolic link, or the     *)
(* file a matched symbolic link points to; and when it has returned        *)
(* without an error, every match that is a regular file, and not the       *)
(* target of a matched link, is removed.                                   *)
(***************************************************************************)
C22_RemovesRegularFilesOnly ==
    /\ \A q \in DOMAIN disk0 :
          (disk0[q].kind \in {"dir", "link"} \/ IsTargetOfMatch(q))
              => q \in DOMAIN disk /\ disk[q] = disk0[q]
    /\ rmpc = "done" =>
          \A q \in MatchesAtCall :
              (disk0[q].kind = "file" /\ ~IsTargetOfMatch(q)) => q \notin DOMAIN disk

(***************************************************************************)
(* C39: every file removeFiles removes for the key of an incoming jar is   *)
(* another version of that jar: its name, with every run of digits         *)
(* replaced by one asterisk and the suffix -SNAPSHOT dropped, is the name  *)
(* of the incoming jar treated the same way.                               *)
(***************************************************************************)
C39_RemovesOtherVersionsOnly ==
    \A q \in DOMAIN disk0 \ DOMAIN disk : wildcardedFilenameOf(q) = rmPattern

(***************************************************************************)
(* C24: when os.Remove fails for a match, the call still ends without a    *)
(* panic of applyTarballPatch, and every other match that is to be removed *)
(* is removed.                                                             *)
(***************************************************************************)
C24_RemovalFailureContained ==
    (/\ rmpc \in {"done", "panic"}
     /\ rmErr # "Failed to eval symlink"
     /\ \E n \in 1..Len(rmFiles) : rmFiles[n] \in failing \ rmToSkip)
        => /\ rmpc = "done"
           /\ \A n \in 1..Len(rmFiles) :
                 rmFiles[n] \notin (failing \cup rmToSkip) => rmFiles[n] \notin DOMAIN disk

(***************************************************************************)
(* shouldSkipFile (lines 603-605) on the names an archive may hold.        *)
(***************************************************************************)
SkipDirs == {"", "path/to/",
             "components/sakai-provider-pack/WEB-INF/",
             "components/sakai-provider-pack/WEB-INF/lib/",
             "components/sakai-provider-pack/WEB-INF/classes/components/",
             "components/sakai-provider-pack/META-INF/",
             "components/elasticsearch-impl/WEB-INF/",
             "./components/sakai-provider-pack/WEB-INF/",
             "old/components/sakai-provider-pack/WEB-INF/"}

SkipStems == {"", "web", "components", "unboundid-ldap-2", "jldap-beans",
              "unbounded-ldap", "my-jldap-beans-mic", "jldap\nbeans"}

SkipTypes == {"", ".xml", ".jar", ".xml.bak", ".XML"}

SkipNames == {dir \o stem \o type : dir \in SkipDirs, stem \in SkipStems, type \in SkipTypes}

SkInit ==
    /\ skpc = "call"
    /\ skName \in SkipNames
    /\ skips = FALSE

shouldSkipFileCall ==
    /\ skpc = "call"
    /\ skips' = shouldSkipFile(skName)
    /\ skpc' = "done"
    /\ UNCHANGED <<skName, propVars, rnVars, rmVars, runVars, tarVars>>

SkNext == shouldSkipFileCall

InitSkip == RunIdle /\ TarIdle /\ PropIdle /\ RnIdle /\ RmIdle /\ SkInit

SpecSkip == InitSkip /\ [][SkNext]_vars

\* the part of a name after the protected directory
PartAfter(filename) == SubSeq(filename, Len(ProtectedDir) + 1, Len(filename))

HoldsKeyword(t) ==
    Contains(t, "unboundid") \/ Contains(t, "components") \/ Contains(t, "jldap")

\* the name begins with the protected directory, ends in .xml, and its part
\* after the directory holds one of the three words
ProtectedByName(filename) ==
    /\ HasPrefix(filename, ProtectedDir)
    /\ HasSuffix(filename, ".xml")
    /\ HoldsKeyword(PartAfter(filename))

(***************************************************************************)
(* C33 as stated: shouldSkipFile(p) is true exactly when p lies under      *)
(* components/sakai-provider-pack/WEB-INF/, ends in .xml and its part      *)
(* after that directory contains unboundid, components or jldap.           *)
(***************************************************************************)
C33_SkipExactlyAsStated ==
    skpc = "done" => (skips <=> ProtectedByName(skName))

(***************************************************************************)
(* C33 amended: shouldSkipFile(p) is true exactly when p begins with       *)
(* components/sakai-provider-pack/WEB-INF/, ends in .xml, and its part     *)
(* after that directory contains unboundid, components or jldap and holds  *)
(* no line break; so it is false for every name that does not begin with   *)
(* that directory, and for every name in it that does not end in .xml.     *)
(***************************************************************************)
C33_SkipExactly ==
    skpc = "done" =>
        /\ skips <=> (ProtectedByName(skName) /\ ~Contains(PartAfter(skName), "\n"))
        /\ ~HasPrefix(skName, ProtectedDir) => ~skips
        /\ ~HasSuffix(skName, ".xml") => ~skips

\* the answer for a protected file with a word in front of and behind the keyword
C33_Witness ==
    /\ skpc = "done"
    /\ skips
    /\ skName = "components/sakai-provider-pack/WEB-INF/my-jldap-beans-mic.xml"

====
